---- MODULE Spec2Model ----
(***************************************************************************)
(* Trade-identity parsing, deal aggregation and ledger reconciliation of   *)
(* the trader companion (mt5_comment_parser.py, trader_app.py).            *)
(*                                                                         *)
(* Strings are sequences of one-character strings.  Optional values are    *)
(* None == <<>> or Some(x) == <<x>>.  Money is a double that is a whole    *)
(* number of 1/800 dollar plus hi * 2^53 eighths of a dollar (see FAdd).   *)
(***************************************************************************)
EXTENDS Integers, Sequences, FiniteSets, TLC

None == <<>>
Some(x) == <<x>>
IsNone(o) == o = <<>>
Val(o) == o[1]

Min(S) == CHOOSE x \in S : \A y \in S : x <= y
Max(S) == CHOOSE x \in S : \A y \in S : x >= y
Range(s) == {s[i] : i \in 1..Len(s)}

(***************************************************************************)
(* Characters and Python string primitives                                 *)
(***************************************************************************)
Digits == <<"0", "1", "2", "3", "4", "5", "6", "7", "8", "9">>
LowerLetters == <<"a", "b", "c", "d", "e", "f", "g", "h", "i", "j", "k", "l", "m",
                  "n", "o", "p", "q", "r", "s", "t", "u", "v", "w", "x", "y", "z">>
UpperLetters == <<"A", "B", "C", "D", "E", "F", "G", "H", "I", "J", "K", "L", "M",
                  "N", "O", "P", "Q", "R", "S", "T", "U", "V", "W", "X", "Y", "Z">>

IndexIn(c, s) == IF \E i \in 1..Len(s) : s[i] = c
                 THEN Min({i \in 1..Len(s) : s[i] = c}) ELSE 0

IsDigit(c) == IndexIn(c, Digits) > 0
DigitVal(c) == IndexIn(c, Digits) - 1
IsSpace(c) == c = " "

\* str.upper() / str.lower(), character by character
UpperChar(c) == IF IndexIn(c, LowerLetters) > 0 THEN UpperLetters[IndexIn(c, LowerLetters)] ELSE c
LowerChar(c) == IF IndexIn(c, UpperLetters) > 0 THEN LowerLetters[IndexIn(c, UpperLetters)] ELSE c
Upper(s) == [i \in 1..Len(s) |-> UpperChar(s[i])]
Lower(s) == [i \in 1..Len(s) |-> LowerChar(s[i])]

\* str.strip(): drop leading and trailing whitespace
Strip(s) ==
    LET keep == {i \in 1..Len(s) : ~IsSpace(s[i])}
    IN  IF keep = {} THEN <<>> ELSE SubSeq(s, Min(keep), Max(keep))

\* s[-n:] for 1 <= n <= len(s)
Suffix(s, n) == SubSeq(s, Len(s) - n + 1, Len(s))
StartsWith(s, p) == Len(s) >= Len(p) /\ SubSeq(s, 1, Len(p)) = p
\* Python's `a in b` on strings
Contains(b, a) == \E i \in 0..(Len(b) - Len(a)) : SubSeq(b, i + 1, i + Len(a)) = a
AllDigits(s) == \A i \in 1..Len(s) : IsDigit(s[i])

\* int(digits)
RECURSIVE ToInt(_)
ToInt(s) == IF s = <<>> THEN 0 ELSE 10 * ToInt(SubSeq(s, 1, Len(s) - 1)) + DigitVal(s[Len(s)])

\* str(n) for n >= 0
RECURSIVE IntToStr(_)
IntToStr(n) == IF n < 10 THEN <<Digits[n + 1]>> ELSE IntToStr(n \div 10) \o <<Digits[(n % 10) + 1]>>

\* '%02d' / '%04d' style zero padding
RECURSIVE Pad(_, _)
Pad(s, w) == IF Len(s) >= w THEN s ELSE Pad(<<"0">> \o s, w)

\* "_".join(parts)
RECURSIVE Join(_)
Join(parts) == IF Len(parts) = 0 THEN <<>>
               ELSE IF Len(parts) = 1 THEN parts[1]
               ELSE parts[1] \o <<"_">> \o Join(Tail(parts))

(***************************************************************************)
(* Dates: datetime.strptime(s, "%d%m%y"), strftime('%d%m%y'), isoformat()  *)
(***************************************************************************)
IsLeap(y) == (y % 4 = 0 /\ y % 100 # 0) \/ y % 400 = 0
DaysInMonth(m, y) == IF m = 2 THEN (IF IsLeap(y) THEN 29 ELSE 28)
                     ELSE IF m \in {4, 6, 9, 11} THEN 30 ELSE 31

\* Six digits DDMMYY; a two-digit year 00..68 is 20YY, 69..99 is 19YY.
\* ValueError (no date) becomes None.
StrpTime(ds) ==
    LET d == ToInt(SubSeq(ds, 1, 2))
        m == ToInt(SubSeq(ds, 3, 4))
        yy == ToInt(SubSeq(ds, 5, 6))
        y == IF yy <= 68 THEN 2000 + yy ELSE 1900 + yy
    IN  IF m \in 1..12 /\ d >= 1 /\ d <= DaysInMonth(m, y)
        THEN Some([day |-> d, month |-> m, year |-> y])
        ELSE None

StrfTime(dt) == Pad(IntToStr(dt.day), 2) \o Pad(IntToStr(dt.month), 2) \o Pad(IntToStr(dt.year % 100), 2)

IsoFormat(dt) == Pad(IntToStr(dt.year), 4) \o <<"-">> \o Pad(IntToStr(dt.month), 2) \o <<"-">>
                 \o Pad(IntToStr(dt.day), 2) \o <<"T", "0", "0", ":", "0", "0", ":", "0", "0">>

\* datetime.fromisoformat of 'YYYY-MM-DDT00:00:00'; a failure becomes None
FromIsoFormat(s) ==
    IF /\ Len(s) = 19
       /\ AllDigits(SubSeq(s, 1, 4)) /\ s[5] = "-"
       /\ AllDigits(SubSeq(s, 6, 7)) /\ s[8] = "-"
       /\ AllDigits(SubSeq(s, 9, 10)) /\ s[11] = "T"
    THEN LET y == ToInt(SubSeq(s, 1, 4))
             m == ToInt(SubSeq(s, 6, 7))
             d == ToInt(SubSeq(s, 9, 10))
         IN  IF y >= 1 /\ m \in 1..12 /\ d >= 1 /\ d <= DaysInMonth(m, y)
             THEN Some([day |-> d, month |-> m, year |-> y])
             ELSE None
    ELSE None

(***************************************************************************)
(* MT5CommentParser                                                        *)
(***************************************************************************)
ParsedComment(account, phase, code, trade, date, raw, valid) ==
    [account_number |-> account, phase |-> phase, phase_code |-> code,
     trade_number |-> trade, farming_date |-> date, raw_comment |-> raw,
     is_valid |-> valid]

\* ^(.+?)_(CH|FD|DD)(\d+)$ with re.IGNORECASE: the positions i where the
\* account group may end; the lazy group takes the smallest.
NumberedSplits(c) ==
    {i \in 1..(Len(c) - 4) :
        /\ c[i + 1] = "_"
        /\ Upper(SubSeq(c, i + 2, i + 3)) \in {<<"C", "H">>, <<"F", "D">>, <<"D", "D">>}
        /\ AllDigits(SubSeq(c, i + 4, Len(c)))}

PhaseOfCode(code) ==
    IF code = <<"C", "H">> THEN "CHALLENGE"
    ELSE IF code = <<"F", "D">> THEN "FUNDED"
    ELSE IF code = <<"D", "D">> THEN "DOUBLE_DIP"
    ELSE "UNKNOWN"

\* mutant: the trade number is the last digit only
parse_numbered_phase_last_digit(c) ==
    LET i == Min(NumberedSplits(c))
        code == Upper(SubSeq(c, i + 2, i + 3))
    IN  ParsedComment(Some(SubSeq(c, 1, i)), Some(PhaseOfCode(code)), Some(code),
                      Some(DigitVal(c[Len(c)])), None, c, TRUE)

parse_numbered_phase(c) ==
    LET i == Min(NumberedSplits(c))
        code == Upper(SubSeq(c, i + 2, i + 3))
    IN  ParsedComment(Some(SubSeq(c, 1, i)), Some(PhaseOfCode(code)), Some(code),
                      Some(ToInt(SubSeq(c, i + 4, Len(c)))), None, c, TRUE)

\* ^(.+?)_FA_(\d{6})$
FarmingDateMatches(c) ==
    /\ Len(c) >= 11
    /\ Upper(SubSeq(c, Len(c) - 9, Len(c) - 6)) = <<"_", "F", "A", "_">>
    /\ AllDigits(Suffix(c, 6))

\* mutant: a date that does not parse makes the comment invalid
parse_farming_strict_date(c) ==
    ParsedComment(Some(SubSeq(c, 1, Len(c) - 10)), Some("FARMING"), Some(<<"F", "A">>),
                  None, StrpTime(Suffix(c, 6)), c, ~IsNone(StrpTime(Suffix(c, 6))))

parse_farming_with_date(c) ==
    ParsedComment(Some(SubSeq(c, 1, Len(c) - 10)), Some("FARMING"), Some(<<"F", "A">>),
                  None, StrpTime(Suffix(c, 6)), c, TRUE)

\* ^(.+?)_FA$
SimpleFarmingMatches(c) == Len(c) >= 4 /\ Upper(Suffix(c, 3)) = <<"_", "F", "A">>

parse_simple_farming(c) ==
    ParsedComment(Some(SubSeq(c, 1, Len(c) - 3)), Some("FARMING"), Some(<<"F", "A">>),
                  None, None, c, TRUE)

\* mutant: ^(.*?)_UNK$, an empty account group
UnknownMatchesEmptyAccount(c) == Len(c) >= 4 /\ Upper(Suffix(c, 4)) = <<"_", "U", "N", "K">>

\* ^(.+?)_UNK$
UnknownMatches(c) == Len(c) >= 5 /\ Upper(Suffix(c, 4)) = <<"_", "U", "N", "K">>

parse_unknown_phase(c) ==
    ParsedComment(Some(SubSeq(c, 1, Len(c) - 4)), Some("UNKNOWN"), Some(<<"U", "N", "K">>),
                  None, None, c, TRUE)

\* ^Combine(\d+)_(.*)$ : the greedy digit group ends at the first non-digit,
\* which must be "_"
CombineWord == <<"C", "o", "m", "b", "i", "n", "e">>
CombineDigitsEnd(c) ==
    LET nd == {i \in 8..Len(c) : ~IsDigit(c[i])}
    IN  IF nd = {} THEN Len(c) + 1 ELSE Min(nd)
LegacyMatches(c) ==
    /\ Len(c) >= 9
    /\ Upper(SubSeq(c, 1, 7)) = Upper(CombineWord)
    /\ CombineDigitsEnd(c) > 8
    /\ CombineDigitsEnd(c) <= Len(c)
    /\ c[CombineDigitsEnd(c)] = "_"

parse_legacy_combine(c) ==
    LET num == SubSeq(c, 8, CombineDigitsEnd(c) - 1)
    IN  ParsedComment(Some(CombineWord \o num), Some("LEGACY"),
                      Some(<<"L", "E", "G", "A", "C", "Y">>), Some(ToInt(num)), None, c, TRUE)

\* mutant: the legacy rule is tried first
parse_legacy_first(comment) ==
    IF IsNone(comment) \/ Val(comment) = <<>>
    THEN ParsedComment(None, None, None, None, None, <<>>, FALSE)
    ELSE LET c == Strip(Val(comment))
         IN  IF LegacyMatches(c) THEN parse_legacy_combine(c)
             ELSE IF NumberedSplits(c) # {} THEN parse_numbered_phase(c)
             ELSE IF FarmingDateMatches(c) THEN parse_farming_with_date(c)
             ELSE IF SimpleFarmingMatches(c) THEN parse_simple_farming(c)
             ELSE IF UnknownMatches(c) THEN parse_unknown_phase(c)
             ELSE IF c # <<>> /\ ~StartsWith(c, CombineWord)
                  THEN ParsedComment(Some(c), None, None, None, None, Val(comment), FALSE)
                  ELSE ParsedComment(None, None, None, None, None, Val(comment), FALSE)

\* mutant: the fallback without the test for the legacy prefix
parse_fallback_any(comment) ==
    IF IsNone(comment) \/ Val(comment) = <<>>
    THEN ParsedComment(None, None, None, None, None, <<>>, FALSE)
    ELSE LET c == Strip(Val(comment))
         IN  IF NumberedSplits(c) # {} THEN parse_numbered_phase(c)
             ELSE IF FarmingDateMatches(c) THEN parse_farming_with_date(c)
             ELSE IF SimpleFarmingMatches(c) THEN parse_simple_farming(c)
             ELSE IF UnknownMatches(c) THEN parse_unknown_phase(c)
             ELSE IF LegacyMatches(c) THEN parse_legacy_combine(c)
             ELSE IF c # <<>>
                  THEN ParsedComment(Some(c), None, None, None, None, Val(comment), FALSE)
                  ELSE ParsedComment(None, None, None, None, None, Val(comment), FALSE)

\* MT5CommentParser.parse; `comment` is None or Some(string)
parse(comment) ==
    IF IsNone(comment) \/ Val(comment) = <<>>
    THEN ParsedComment(None, None, None, None, None, <<>>, FALSE)
    ELSE LET c == Strip(Val(comment))
         IN  IF NumberedSplits(c) # {} THEN parse_numbered_phase(c)
             ELSE IF FarmingDateMatches(c) THEN parse_farming_with_date(c)
             ELSE IF SimpleFarmingMatches(c) THEN parse_simple_farming(c)
             ELSE IF UnknownMatches(c) THEN parse_unknown_phase(c)
             ELSE IF LegacyMatches(c) THEN parse_legacy_combine(c)
             ELSE IF c # <<>> /\ ~StartsWith(c, CombineWord)
                  THEN ParsedComment(Some(c), None, None, None, None, Val(comment), FALSE)
                  ELSE ParsedComment(None, None, None, None, None, Val(comment), FALSE)

(***************************************************************************)
(* Money.  A deal amount is a double n/8 dollars with n = hi * 2^53 + lo/100, *)
(* so lo counts 1/800 dollar and is a multiple of 100 for deal amounts;    *)
(* eighths are dyadic, hence sums below 2^53 eighths are exact, and a sum  *)
(* at or above it is rounded to 53 significant bits, ties to even.  Values *)
(* rounded to cents (multiples of 8 in lo) are stored and compared only.   *)
(***************************************************************************)
Amount(h, l) == [hi |-> h, lo |-> l]
Zero == Amount(0, 0)
Eighth == 100
Dollar == 800
Cent == 8

Abs(n) == IF n < 0 THEN -n ELSE n
Sgn(n) == IF n < 0 THEN -1 ELSE IF n > 0 THEN 1 ELSE 0

\* n/d rounded to the nearest integer, ties to the even one (d > 0)
RoundHalfEven(n, d) ==
    LET q == n \div d
        r == n % d
    IN  IF 2 * r < d THEN q
        ELSE IF 2 * r > d THEN q + 1
        ELSE IF q % 2 = 0 THEN q ELSE q + 1

RECURSIVE Pow2(_)
Pow2(e) == IF e = 0 THEN 1 ELSE 2 * Pow2(e - 1)
RECURSIVE Log2Floor(_)
Log2Floor(a) == IF a <= 1 THEN 0 ELSE 1 + Log2Floor(a \div 2)

\* Spacing (in eighths) of the doubles around a * 2^53 + b, a > 0, |b| small
Ulp(a, b) ==
    IF b < 0 /\ Pow2(Log2Floor(a)) = a THEN Pow2(Log2Floor(a)) ELSE 2 * Pow2(Log2Floor(a))

\* x + y on doubles: the exact sum, rounded once
FAdd(x, y) ==
    LET a == x.hi + y.hi
        l == x.lo + y.lo
    IN  IF a = 0 \/ l % Eighth # 0 THEN Amount(a, l)
        ELSE LET s == Sgn(a)
                 u == Ulp(s * a, s * (l \div Eighth))
             IN  Amount(a, s * u * RoundHalfEven(s * (l \div Eighth), u) * Eighth)

\* round(x, 2): to the nearest cent, ties to even; a double at or above 2^53
\* eighths is spaced at least an eighth apart and is returned unchanged
Round2(x) == IF x.hi # 0 THEN x ELSE Amount(0, Cent * RoundHalfEven(x.lo, Cent))

(***************************************************************************)
(* Raw deals.  Every field is None when the key is missing from the dict.  *)
(* type is a string or an integer code.                                   *)
(***************************************************************************)
StrType(s) == [k |-> "str", s |-> s, n |-> 0]
IntType(n) == [k |-> "int", s |-> <<>>, n |-> n]
\* str(value)
PyStr(v) == IF v.k = "int" THEN IntToStr(v.n) ELSE v.s

Deal(ticket, comment, type, profit, commission, swap, fee) ==
    [ticket |-> ticket, comment |-> comment, type |-> type, profit |-> profit,
     commission |-> commission, swap |-> swap, fee |-> fee]

\* deal.get(name, 0) or 0
AmountOr0(field) == IF IsNone(field) THEN Zero ELSE Val(field)

BalanceTypes ==
    {<<"B", "A", "L", "A", "N", "C", "E">>, <<"C", "R", "E", "D", "I", "T">>, <<"2">>, <<"3">>,
     <<"C", "H", "A", "R", "G", "E">>, <<"C", "O", "R", "R", "E", "C", "T", "I", "O", "N">>,
     <<"B", "O", "N", "U", "S">>}

\* mutant: the comparison without .upper()
IsBalanceOpCaseSensitive(deal) ==
    LET deal_type == IF IsNone(deal.type) THEN <<>> ELSE PyStr(Val(deal.type))
    IN  deal_type \in BalanceTypes

\* str(deal.get('type', '')).upper() in [...]
IsBalanceOp(deal) ==
    LET deal_type == IF IsNone(deal.type) THEN <<>> ELSE Upper(PyStr(Val(deal.type)))
    IN  deal_type \in BalanceTypes

(***************************************************************************)
(* MT5DealAggregator                                                       *)
(***************************************************************************)
\* mutant: the grouping key without the date
build_key_without_date(parsed) ==
    Join(<<Val(parsed.account_number), Val(parsed.phase_code)>>
         \o (IF ~IsNone(parsed.trade_number) THEN <<IntToStr(Val(parsed.trade_number))>> ELSE <<>>))

\* MT5DealAggregator._build_key
build_key(parsed) ==
    Join(<<Val(parsed.account_number), Val(parsed.phase_code)>>
         \o (IF ~IsNone(parsed.trade_number) THEN <<IntToStr(Val(parsed.trade_number))>> ELSE <<>>)
         \o (IF ~IsNone(parsed.farming_date) THEN <<StrfTime(Val(parsed.farming_date))>> ELSE <<>>))

AggregatedTrade(key, parsed) ==
    [dict_key |-> key,
     account_number |-> Val(parsed.account_number), phase |-> Val(parsed.phase),
     phase_code |-> Val(parsed.phase_code), trade_number |-> parsed.trade_number,
     farming_date |-> parsed.farming_date,
     total_profit |-> Zero, total_commission |-> Zero, total_swap |-> Zero,
     total_fee |-> Zero, deal_count |-> 0, deals |-> <<>>]

\* mutant: `=` in place of `+=`
AccumulateLast(agg, deal) ==
    [agg EXCEPT !.total_profit = AmountOr0(deal.profit),
                !.total_commission = AmountOr0(deal.commission),
                !.total_swap = AmountOr0(deal.swap),
                !.total_fee = AmountOr0(deal.fee),
                !.deal_count = @ + 1,
                !.deals = Append(@, deal)]

\* mutant: the swap is added to the profit total
AccumulateMerged(agg, deal) ==
    [agg EXCEPT !.total_profit = FAdd(FAdd(@, AmountOr0(deal.profit)), AmountOr0(deal.swap)),
                !.total_commission = FAdd(@, AmountOr0(deal.commission)),
                !.total_fee = FAdd(@, AmountOr0(deal.fee)),
                !.deal_count = @ + 1,
                !.deals = Append(@, deal)]

\* the four `+=`, the count and the audit list
Accumulate(agg, deal) ==
    [agg EXCEPT !.total_profit = FAdd(@, AmountOr0(deal.profit)),
                !.total_commission = FAdd(@, AmountOr0(deal.commission)),
                !.total_swap = FAdd(@, AmountOr0(deal.swap)),
                !.total_fee = FAdd(@, AmountOr0(deal.fee)),
                !.deal_count = @ + 1,
                !.deals = Append(@, deal)]

\* position of key in the insertion-ordered dict, 0 when absent
KeyIndex(aggs, key) ==
    IF \E i \in 1..Len(aggs) : aggs[i].dict_key = key
    THEN CHOOSE i \in 1..Len(aggs) : aggs[i].dict_key = key
    ELSE 0

EmptyText == <<"(", "e", "m", "p", "t", "y", ")">>
UnmatchedLine(comment) ==
    [kind |-> "Unmatched",
     text |-> IF IsNone(comment) \/ Val(comment) = <<>> THEN EmptyText ELSE Val(comment)]

Aggregator(aggs, unmatched, log) ==
    [aggregations |-> aggs, unmatched_deals |-> unmatched, parse_log |-> log]

\* MT5DealAggregator.reset
reset == Aggregator(<<>>, <<>>, <<>>)

\* mutant: an unmatched deal is dropped instead of being kept
add_deal_drops_unmatched(self, deal) ==
    IF IsBalanceOp(deal) THEN self
    ELSE LET parsed == parse(deal.comment)
         IN  IF ~parsed.is_valid \/ IsNone(parsed.account_number) \/ Val(parsed.account_number) = <<>>
             THEN self
             ELSE LET key == build_key(parsed)
                      aggs == IF KeyIndex(self.aggregations, key) = 0
                              THEN Append(self.aggregations, AggregatedTrade(key, parsed))
                              ELSE self.aggregations
                      i == KeyIndex(aggs, key)
                  IN  [self EXCEPT !.aggregations = [aggs EXCEPT ![i] = Accumulate(@, deal)]]

\* MT5DealAggregator.add_deal: the aggregator after the call
add_deal(self, deal) ==
    IF IsBalanceOp(deal) THEN self
    ELSE LET parsed == parse(deal.comment)
         IN  IF ~parsed.is_valid \/ IsNone(parsed.account_number) \/ Val(parsed.account_number) = <<>>
             THEN [self EXCEPT !.unmatched_deals = Append(@, deal),
                               !.parse_log = Append(@, UnmatchedLine(deal.comment))]
             ELSE LET key == build_key(parsed)
                      aggs == IF KeyIndex(self.aggregations, key) = 0
                              THEN Append(self.aggregations, AggregatedTrade(key, parsed))
                              ELSE self.aggregations
                      i == KeyIndex(aggs, key)
                  IN  [self EXCEPT !.aggregations = [aggs EXCEPT ![i] = Accumulate(@, deal)]]

\* the value add_deal returns: the key, or None
add_deal_result(deal) ==
    IF IsBalanceOp(deal) THEN None
    ELSE LET parsed == parse(deal.comment)
         IN  IF ~parsed.is_valid \/ IsNone(parsed.account_number) \/ Val(parsed.account_number) = <<>>
             THEN None ELSE Some(build_key(parsed))

\* the loop of MT5DealAggregator.process_deals over ds, from state self
RECURSIVE add_deals(_, _)
add_deals(self, ds) == IF ds = <<>> THEN self ELSE add_deals(add_deal(self, Head(ds)), Tail(ds))

\* MT5DealAggregator.process_deals
process_deals(ds) == add_deals(reset, ds)

\* mutant: the net profit is the profit total
net_profit_gross(agg) == agg.total_profit

\* AggregatedTrade.net_profit
net_profit(agg) == FAdd(FAdd(FAdd(agg.total_profit, agg.total_commission), agg.total_swap), agg.total_fee)

\* AggregatedTrade.get_key
get_key(agg) ==
    agg.account_number \o <<"_">> \o agg.phase_code
    \o (IF ~IsNone(agg.trade_number) /\ Val(agg.trade_number) # 0
        THEN IntToStr(Val(agg.trade_number)) ELSE <<>>)
    \o (IF ~IsNone(agg.farming_date) THEN <<"_">> \o StrfTime(Val(agg.farming_date)) ELSE <<>>)

\* mutant: the first eight characters
get_account_signature_first_eight(account) ==
    IF account = <<>> THEN <<>>
    ELSE LET a == Strip(account)
         IN  IF Len(a) <= 8 THEN Lower(a) ELSE Lower(SubSeq(a, 1, 8))

\* get_account_signature
get_account_signature(account) ==
    IF account = <<>> THEN <<>>
    ELSE LET a == Strip(account)
         IN  IF Len(a) <= 8 THEN Lower(a) ELSE Lower(SubSeq(a, 1, 4) \o Suffix(a, 4))

\* AggregatedTrade.to_dict
to_dict(agg) ==
    [account_number |-> agg.account_number, phase |-> agg.phase, phase_code |-> agg.phase_code,
     trade_number |-> agg.trade_number,
     farming_date |-> IF IsNone(agg.farming_date) THEN None
                      ELSE Some(IsoFormat(Val(agg.farming_date))),
     total_profit |-> Round2(agg.total_profit), total_commission |-> Round2(agg.total_commission),
     total_swap |-> Round2(agg.total_swap), total_fee |-> Round2(agg.total_fee),
     net_profit |-> Round2(net_profit(agg)), deal_count |-> agg.deal_count,
     key |-> get_key(agg), account_signature |-> get_account_signature(agg.account_number)]

\* MT5DealAggregator.to_dashboard_format
to_dashboard_format(aggs) == [i \in 1..Len(aggs) |-> to_dict(aggs[i])]

(***************************************************************************)
(* The evaluation ledger.  A row is a dict: a function from field names to *)
(* cells; a cell is missing (no such key), None, a string or a number.     *)
(***************************************************************************)
Cell(kind, s, a) == [kind |-> kind, s |-> s, hi |-> a.hi, lo |-> a.lo]
MissingCell == Cell("missing", <<>>, Zero)
NoneCell == Cell("none", <<>>, Zero)
StrCell(s) == Cell("str", s, Zero)
NumCell(a) == Cell("num", <<>>, a)

NumHedgeDays == 34

FieldName(fam, n) == [fam |-> fam, n |-> n]
AccountCh == FieldName("Account #", 0)
AccountFu == FieldName("Account #.1", 0)
\* f"Hedge Result {n}", f"Hedge Result {n}.1", f"Hedge Day {n}"
HedgeResult(n) == FieldName("Hedge Result", n)
HedgeResultDot1(n) == FieldName("Hedge Result .1", n)
HedgeDay(n) == FieldName("Hedge Day", n)
FieldNames ==
    {AccountCh, AccountFu} \cup {HedgeResult(n) : n \in 1..7}
    \cup {HedgeResultDot1(n) : n \in 1..5} \cup {HedgeDay(n) : n \in 1..NumHedgeDays}

NoneText == <<"N", "o", "n", "e">>
\* str(ev.get(name, '')).strip() of an account cell (text or null)
AccountStr(cell) ==
    CASE cell.kind = "missing" -> <<>>
      [] cell.kind = "none" -> NoneText
      [] cell.kind = "str" -> Strip(cell.s)

Match(idx, account_type) == [idx |-> idx, account_type |-> account_type]

LookupIndex(lookup, key) ==
    IF \E i \in 1..Len(lookup) : lookup[i].key = key
    THEN CHOOSE i \in 1..Len(lookup) : lookup[i].key = key
    ELSE 0

\* if key not in eval_lookup: eval_lookup[key] = []; eval_lookup[key].append(m)
LookupAppend(lookup, key, m) ==
    IF LookupIndex(lookup, key) = 0
    THEN Append(lookup, [key |-> key, matches |-> <<m>>])
    ELSE [lookup EXCEPT ![LookupIndex(lookup, key)].matches = Append(@, m)]

SuffixLensBuild == <<8, 10, 12>>
SuffixLensFind == <<12, 10, 8>>

RECURSIVE AddSuffixes(_, _, _, _)
AddSuffixes(lookup, account, m, lens) ==
    IF lens = <<>> THEN lookup
    ELSE AddSuffixes(IF Len(account) >= Head(lens)
                     THEN LookupAppend(lookup, Suffix(account, Head(lens)), m)
                     ELSE lookup,
                     account, m, Tail(lens))

\* one account field of one row: the full value, then its suffixes
AddAccount(lookup, account, m) ==
    IF account = <<>> THEN lookup
    ELSE AddSuffixes(LookupAppend(lookup, account, m), account, m, SuffixLensBuild)

\* Step 2 of _process_deals_with_new_parser: rows idx..len, in order
RECURSIVE BuildLookupFrom(_, _, _)
BuildLookupFrom(lookup, evs, idx) ==
    IF idx > Len(evs) THEN lookup
    ELSE BuildLookupFrom(
            AddAccount(AddAccount(lookup, AccountStr(evs[idx][AccountCh]), Match(idx, "challenge")),
                       AccountStr(evs[idx][AccountFu]), Match(idx, "funded")),
            evs, idx + 1)

BuildLookup(evs) == BuildLookupFrom(<<>>, evs, 1)

\* the suffix tier of _find_evaluation_match
RECURSIVE SuffixMatch(_, _, _)
SuffixMatch(account_number, lookup, lens) ==
    IF lens = <<>> THEN None
    ELSE IF Len(account_number) >= Head(lens)
            /\ LookupIndex(lookup, Suffix(account_number, Head(lens))) # 0
         THEN Some(lookup[LookupIndex(lookup, Suffix(account_number, Head(lens)))].matches)
         ELSE SuffixMatch(account_number, lookup, Tail(lens))

\* the containment tier: the first key, in insertion order, that contains
\* the account or is contained in it
ContainMatch(account_number, lookup) ==
    LET hits == {i \in 1..Len(lookup) :
                    Contains(lookup[i].key, account_number) \/ Contains(account_number, lookup[i].key)}
    IN  IF hits = {} THEN None ELSE Some(lookup[Min(hits)].matches)

\* MT5DataPusher._find_evaluation_match
find_evaluation_match(account_number, phase_code, lookup) ==
    IF LookupIndex(lookup, account_number) # 0
    THEN lookup[LookupIndex(lookup, account_number)].matches
    ELSE IF ~IsNone(SuffixMatch(account_number, lookup, SuffixLensFind))
         THEN Val(SuffixMatch(account_number, lookup, SuffixLensFind))
         ELSE IF ~IsNone(ContainMatch(account_number, lookup))
              THEN Val(ContainMatch(account_number, lookup))
              ELSE <<>>

\* mutant: a zero does not free a slot
SlotIsFreeNotZero(cell) ==
    \/ cell.kind \in {"missing", "none"}
    \/ cell.kind = "str" /\ cell.s = <<>>

\* existing_value is None or existing_value == '' or existing_value == 0
SlotIsFree(cell) ==
    \/ cell.kind \in {"missing", "none"}
    \/ cell.kind = "str" /\ cell.s = <<>>
    \/ cell.kind = "num" /\ cell.hi = 0 /\ cell.lo = 0

\* mutant: the slot is the day of the month of the farming date
calculate_farming_day_by_date(farming_date_str, evs, eval_idx) ==
    IF IsNone(FromIsoFormat(farming_date_str)) THEN None
    ELSE Some(Val(FromIsoFormat(farming_date_str)).day)

\* MT5DataPusher._calculate_farming_day
calculate_farming_day(farming_date_str, evs, eval_idx) ==
    IF IsNone(FromIsoFormat(farming_date_str)) THEN None
    ELSE LET ev == evs[eval_idx]
             free == {d \in 1..NumHedgeDays : SlotIsFree(ev[HedgeDay(d)])}
         IN  IF free # {} THEN Some(Min(free)) ELSE Some(NumHedgeDays)

CH == <<"C", "H">>
FD == <<"F", "D">>
DD == <<"D", "D">>
FA == <<"F", "A">>

\* mutant: funded payout n goes to Hedge Result n.1
get_field_name_for_phase_shifted(phase_code, trade_number, farming_date, evs, eval_idx) ==
    LET has == ~IsNone(trade_number)
        n == IF has THEN Val(trade_number) ELSE 0
    IN  IF phase_code = CH
        THEN IF has /\ n # 0 /\ 1 <= n /\ n <= 5 THEN Some(HedgeResult(n)) ELSE None
        ELSE IF phase_code = FD
        THEN IF ~has THEN None
             ELSE IF n = 0 THEN Some(HedgeResultDot1(1))
             ELSE IF 1 <= n /\ n <= 4 THEN Some(HedgeResultDot1(n))
             ELSE IF n = 5 THEN Some(HedgeResult(6))
             ELSE IF n = 6 THEN Some(HedgeResult(7))
             ELSE None
        ELSE IF phase_code = DD
        THEN IF has /\ n # 0 /\ 1 <= n /\ n <= 4
             THEN (IF n <= 2 THEN Some(HedgeResultDot1(n + 3)) ELSE Some(HedgeResult(n + 3)))
             ELSE None
        ELSE IF phase_code = FA
        THEN IF ~IsNone(farming_date) /\ Val(farming_date) # <<>>
             THEN LET day_number == calculate_farming_day(Val(farming_date), evs, eval_idx)
                  IN  IF ~IsNone(day_number) /\ 1 <= Val(day_number) /\ Val(day_number) <= NumHedgeDays
                      THEN Some(HedgeDay(Val(day_number))) ELSE None
             ELSE IF has /\ n # 0 /\ 1 <= n /\ n <= NumHedgeDays THEN Some(HedgeDay(n)) ELSE None
        ELSE None

\* mutant: a challenge ordinal above 5 is mapped too
get_field_name_for_phase_ch_unbounded(phase_code, trade_number, farming_date, evs, eval_idx) ==
    LET has == ~IsNone(trade_number)
        n == IF has THEN Val(trade_number) ELSE 0
    IN  IF phase_code = CH
        THEN IF has /\ n # 0 /\ 1 <= n /\ n <= 7 THEN Some(HedgeResult(n)) ELSE None
        ELSE IF phase_code = FD
        THEN IF ~has THEN None
             ELSE IF n = 0 THEN Some(HedgeResultDot1(1))
             ELSE IF 1 <= n /\ n <= 4 THEN Some(HedgeResultDot1(n + 1))
             ELSE IF n = 5 THEN Some(HedgeResult(6))
             ELSE IF n = 6 THEN Some(HedgeResult(7))
             ELSE None
        ELSE IF phase_code = DD
        THEN IF has /\ n # 0 /\ 1 <= n /\ n <= 4
             THEN (IF n <= 2 THEN Some(HedgeResultDot1(n + 3)) ELSE Some(HedgeResult(n + 3)))
             ELSE None
        ELSE IF phase_code = FA
        THEN IF ~IsNone(farming_date) /\ Val(farming_date) # <<>>
             THEN LET day_number == calculate_farming_day(Val(farming_date), evs, eval_idx)
                  IN  IF ~IsNone(day_number) /\ 1 <= Val(day_number) /\ Val(day_number) <= NumHedgeDays
                      THEN Some(HedgeDay(Val(day_number))) ELSE None
             ELSE IF has /\ n # 0 /\ 1 <= n /\ n <= NumHedgeDays THEN Some(HedgeDay(n)) ELSE None
        ELSE None

\* MT5DataPusher._get_field_name_for_phase
get_field_name_for_phase(phase_code, trade_number, farming_date, evs, eval_idx) ==
    LET has == ~IsNone(trade_number)
        n == IF has THEN Val(trade_number) ELSE 0
    IN  IF phase_code = CH
        THEN IF has /\ n # 0 /\ 1 <= n /\ n <= 5 THEN Some(HedgeResult(n)) ELSE None
        ELSE IF phase_code = FD
        THEN IF ~has THEN None
             ELSE IF n = 0 THEN Some(HedgeResultDot1(1))
             ELSE IF 1 <= n /\ n <= 4 THEN Some(HedgeResultDot1(n + 1))
             ELSE IF n = 5 THEN Some(HedgeResult(6))
             ELSE IF n = 6 THEN Some(HedgeResult(7))
             ELSE None
        ELSE IF phase_code = DD
        THEN IF has /\ n # 0 /\ 1 <= n /\ n <= 4
             THEN (IF n <= 2 THEN Some(HedgeResultDot1(n + 3)) ELSE Some(HedgeResult(n + 3)))
             ELSE None
        ELSE IF phase_code = FA
        THEN IF ~IsNone(farming_date) /\ Val(farming_date) # <<>>
             THEN LET day_number == calculate_farming_day(Val(farming_date), evs, eval_idx)
                  IN  IF ~IsNone(day_number) /\ 1 <= Val(day_number) /\ Val(day_number) <= NumHedgeDays
                      THEN Some(HedgeDay(Val(day_number))) ELSE None
             ELSE IF has /\ n # 0 /\ 1 <= n /\ n <= NumHedgeDays THEN Some(HedgeDay(n)) ELSE None
        ELSE None

\* mutant: no role test
RoleCompatibleAny(phase_code, account_type) == TRUE

\* the two `continue` tests of the update loop
RoleCompatible(phase_code, account_type) ==
    /\ ~(phase_code = CH /\ account_type # "challenge")
    /\ ~(phase_code \in {FD, DD, FA} /\ account_type # "funded")

\* the candidate the update loop stops at: the first role-compatible one
\* (0 when the loop runs out without an update)
FirstCompatible(eval_matches, phase_code) ==
    LET ok == {i \in 1..Len(eval_matches) : RoleCompatible(phase_code, eval_matches[i].account_type)}
    IN  IF ok = {} THEN 0 ELSE Min(ok)

\* mutant: the loop without its `break`
UpdatedCandidatesAll(eval_matches, phase_code) ==
    {i \in 1..Len(eval_matches) : RoleCompatible(phase_code, eval_matches[i].account_type)}

\* the candidates the update loop writes through (it breaks after the first)
UpdatedCandidates(eval_matches, phase_code) ==
    IF FirstCompatible(eval_matches, phase_code) = 0 THEN {}
    ELSE {FirstCompatible(eval_matches, phase_code)}

\* `trade_number or ''` in the log lines
TradeOrEmpty(trade_number) ==
    IF IsNone(trade_number) \/ Val(trade_number) = 0 THEN None ELSE trade_number

LogLine(kind, account, code, trade, field, value, n) ==
    [kind |-> kind, account |-> account, phase_code |-> code, trade |-> trade,
     field |-> field, value |-> value, n |-> n, keys |-> <<>>]
CountLine(kind, n) == LogLine(kind, <<>>, <<>>, None, None, None, n)
\* list(eval_lookup.keys())[:5]
SampleLine(lookup) ==
    [CountLine("SampleAccounts", 0) EXCEPT
        !.keys = [i \in 1..(IF Len(lookup) < 5 THEN Len(lookup) ELSE 5) |-> lookup[i].key]]

(***************************************************************************)
(* Inputs                                                                  *)
(***************************************************************************)
MaxDeals == 2
MaxRows == 2
MaxFoldDeals == 3
MaxPass == 2

RECURSIVE SeqsUpTo(_, _)
SeqsUpTo(S, n) ==
    IF n = 0 THEN {<<>>}
    ELSE LET shorter == SeqsUpTo(S, n - 1)
         IN  shorter \cup {Append(q, x) : q \in {r \in shorter : Len(r) = n - 1}, x \in S}

Acct8 == <<"1", "2", "3", "4", "5", "6", "7", "8">>
Acct10 == <<"T", "F">> \o Acct8
Acct12 == <<"M", "F">> \o Acct10
AcctIn == <<"3", "4", "5">>

Dollars(n) == Some(Amount(0, n * Dollar))
TwoTo53Eighths == Amount(1, 0)
Buy == Some(StrType(<<"B", "U", "Y">>))
Sell == Some(StrType(<<"S", "E", "L", "L">>))

Comment(account, suffix) == Some(account \o suffix)
SfxCH1 == <<"_", "C", "H", "1">>
SfxFD1 == <<"_", "F", "D", "1">>
SfxFA21 == <<"_", "F", "A", "_", "2", "1", "0", "1", "2", "6">>
SfxFA22 == <<"_", "F", "A", "_", "2", "2", "0", "1", "2", "6">>

\* deals of the reconciliation runs: a funded payout, two dated farming
\* days (the second nets to zero), a challenge trade and a free-text comment
DealPool ==
    {Deal(1, Comment(Acct10, SfxFD1), Sell, Dollars(5), None, None, None),
     Deal(2, Comment(Acct10, SfxFA21), Buy, Dollars(2), None, None, None),
     Deal(3, Comment(Acct10, SfxFA22), Buy, Dollars(1), Some(Amount(0, -Dollar)), None, None),
     Deal(4, Comment(Acct10, SfxCH1), Sell, Dollars(3), None, None, None),
     Deal(5, Some(<<"h", "i">>), Buy, Dollars(1), None, None, None)}

\* deals of the aggregation runs: one challenge identity, written two ways,
\* with amounts of 1/8 dollar, 2^53 eighths, -2^53 eighths and 2 dollars,
\* balance operations that carry the same comment, a deal without comment
\* and a funded base trade
SfxCh01 == <<"_", "c", "h", "0", "1">>
SfxFD0 == <<"_", "F", "D", "0">>
FoldPool ==
    {Deal(11, Comment(Acct10, SfxCH1), Sell, Some(Amount(0, Eighth)), None, None, None),
     Deal(12, Comment(Acct10, SfxCH1), Sell, Some(TwoTo53Eighths), None, None, None),
     Deal(13, Comment(Acct10, SfxCH1), Buy, Some(Amount(-1, 0)), None, None, None),
     Deal(14, Comment(Acct10, SfxCh01), Buy, Dollars(2), None, Some(Amount(0, -Dollar)), None),
     Deal(15, Comment(Acct10, SfxCH1), Some(StrType(<<"b", "a", "l", "a", "n", "c", "e">>)),
          Dollars(10), None, None, None),
     Deal(16, Comment(Acct10, SfxCH1), Some(IntType(2)), Dollars(10), None, None, None),
     Deal(17, None, Buy, Dollars(25), Some(Amount(0, -4 * Eighth)), None, None),
     Deal(18, Comment(Acct10, SfxFD0), Sell, Dollars(5), None, None, Some(Amount(0, -Dollar)))}

\* a ledger row with the given account cells and the first `used` farming
\* days already filled
Row(ch, fu, used) ==
    [f \in FieldNames |->
        IF f = AccountCh THEN ch
        ELSE IF f = AccountFu THEN fu
        ELSE IF f.fam = "Hedge Day" /\ f.n <= used THEN NumCell(Amount(0, 7 * Dollar))
        ELSE IF f.fam = "Hedge Day" THEN StrCell(<<>>)
        ELSE MissingCell]

RowPool ==
    {Row(StrCell(Acct10), MissingCell, 0),
     Row(NoneCell, StrCell(Acct10), 3),
     Row(MissingCell, StrCell(Acct12), 0),
     Row(MissingCell, StrCell(Acct8 \o <<" ">>), 0),
     Row(MissingCell, StrCell(AcctIn), 0)}

(***************************************************************************)
(* State                                                                   *)
(***************************************************************************)
VARIABLES
    deals,            \* the deal list handed to process_deals_for_evaluations
    evaluations,      \* the ledger, mutated in place
    pc,               \* "start", "aggregate", "match" or "done"
    pass,             \* which call on the same deals and ledger this is
    di,               \* index of the next deal of the process_deals loop
    aggregator,       \* aggregations, unmatched_deals, parse_log
    skipped,          \* history: deals add_deal returned from as balance operations
    aggregated,       \* to_dashboard_format()
    eval_lookup,      \* insertion-ordered dict of candidate lists
    ai,               \* index of the next rollup of the update loop
    match_log,
    updates_made,
    writes,           \* history: every ledger assignment, in order
    after_first       \* history: the ledger as the first pass returned it

vars == <<deals, evaluations, pc, pass, di, aggregator, skipped, aggregated,
          eval_lookup, ai, match_log, updates_made, writes, after_first>>

InitWith(ds, evs) ==
    /\ deals = ds
    /\ evaluations = evs
    /\ pc = "start"
    /\ pass = 1
    /\ di = 1
    /\ aggregator = reset
    /\ skipped = 0
    /\ aggregated = <<>>
    /\ eval_lookup = <<>>
    /\ ai = 1
    /\ match_log = <<>>
    /\ updates_made = 0
    /\ writes = <<>>
    /\ after_first = <<>>

Init ==
    \E ds \in SeqsUpTo(DealPool, MaxDeals), evs \in SeqsUpTo(RowPool, MaxRows) :
        InitWith(ds, evs)

\* aggregation runs: any list of FoldPool deals against one ledger
FoldLedger == <<Row(StrCell(Acct10), StrCell(Acct10), 0)>>
InitFold == \E ds \in SeqsUpTo(FoldPool, MaxFoldDeals) : InitWith(ds, FoldLedger)

(***************************************************************************)
(* process_deals_for_evaluations, one loop iteration per step              *)
(***************************************************************************)
\* `if not deals or not evaluations: return`
EarlyReturn ==
    /\ pc = "start"
    /\ deals = <<>> \/ evaluations = <<>>
    /\ match_log' = <<CountLine("NoDealsOrEvaluations", 0)>>
    /\ pc' = "done"
    /\ UNCHANGED <<deals, evaluations, pass, di, aggregator, skipped, aggregated,
                   eval_lookup, ai, updates_made, writes, after_first>>

\* a fresh MT5DealAggregator, and the reset() of process_deals
BeginPass ==
    /\ pc = "start"
    /\ deals # <<>> /\ evaluations # <<>>
    /\ match_log' = <<>>
    /\ aggregator' = reset
    /\ skipped' = 0
    /\ di' = 1
    /\ pc' = "aggregate"
    /\ UNCHANGED <<deals, evaluations, pass, aggregated, eval_lookup, ai,
                   updates_made, writes, after_first>>

\* one iteration of `for deal in deals: self.add_deal(deal)`
AddDeal ==
    /\ pc = "aggregate"
    /\ di <= Len(deals)
    /\ aggregator' = add_deal(aggregator, deals[di])
    /\ skipped' = IF IsBalanceOp(deals[di]) THEN skipped + 1 ELSE skipped
    /\ di' = di + 1
    /\ UNCHANGED <<deals, evaluations, pc, pass, aggregated, eval_lookup, ai,
                   match_log, updates_made, writes, after_first>>

AggregatedLines ==
    <<CountLine("Aggregated", Len(aggregator.aggregations)),
      CountLine("UnmatchedDeals", Len(aggregator.unmatched_deals))>>

\* `if not aggregated: return`
NoGroups ==
    /\ pc = "aggregate"
    /\ di > Len(deals)
    /\ aggregator.aggregations = <<>>
    /\ aggregated' = <<>>
    /\ match_log' = match_log \o AggregatedLines \o <<CountLine("NoValidGroups", 0)>>
    /\ pc' = "done"
    /\ UNCHANGED <<deals, evaluations, pass, di, aggregator, skipped, eval_lookup, ai,
                   updates_made, writes, after_first>>

\* to_dashboard_format() and Step 2, the account lookup
BuildLookupStep ==
    /\ pc = "aggregate"
    /\ di > Len(deals)
    /\ aggregator.aggregations # <<>>
    /\ aggregated' = to_dashboard_format(aggregator.aggregations)
    /\ eval_lookup' = BuildLookup(evaluations)
    /\ match_log' = match_log \o AggregatedLines
                    \o <<CountLine("BuiltLookup", Len(BuildLookup(evaluations))),
                          SampleLine(BuildLookup(evaluations))>>
    /\ updates_made' = 0
    /\ ai' = 1
    /\ pc' = "match"
    /\ UNCHANGED <<deals, evaluations, pass, di, aggregator, skipped, writes, after_first>>

\* mutant: the assignment reaches every row of the ledger
WriteCellsEveryRow(evs, rows, field_name, value) ==
    [i \in 1..Len(evs) |-> [evs[i] EXCEPT ![field_name] = NumCell(value)]]

\* evaluations[eval_idx][field_name] = net_profit, for every idx in rows
WriteCells(evs, rows, field_name, value) ==
    [i \in 1..Len(evs) |->
        IF i \in rows THEN [evs[i] EXCEPT ![field_name] = NumCell(value)] ELSE evs[i]]

RowHasFreeDay(ev) == \E d \in 1..NumHedgeDays : SlotIsFree(ev[HedgeDay(d)])

\* one iteration of `for agg in aggregated`
ProcessRollup ==
    /\ pc = "match"
    /\ ai <= Len(aggregated)
    /\ LET agg == aggregated[ai]
           eval_matches == find_evaluation_match(agg.account_number, agg.phase_code, eval_lookup)
           trade == TradeOrEmpty(agg.trade_number)
       IN  IF eval_matches = <<>>
           THEN /\ match_log' = Append(match_log,
                        LogLine("NoMatch", agg.account_number, agg.phase_code, trade,
                                None, Some(agg.net_profit), 0))
                /\ UNCHANGED <<evaluations, updates_made, writes>>
           ELSE LET field_name == get_field_name_for_phase(agg.phase_code, agg.trade_number,
                                      agg.farming_date, evaluations, eval_matches[1].idx)
                IN  IF IsNone(field_name)
                    THEN /\ match_log' = Append(match_log,
                                 LogLine("UnknownField", <<>>, agg.phase_code, trade,
                                         None, None, 0))
                         /\ UNCHANGED <<evaluations, updates_made, writes>>
                    ELSE LET hit == UpdatedCandidates(eval_matches, agg.phase_code)
                             rows == {eval_matches[i].idx : i \in hit}
                             line(i) == LogLine("Updated", agg.account_number, agg.phase_code,
                                                trade, field_name, Some(agg.net_profit),
                                                agg.deal_count)
                             row(i) == LogLine("MatchedRow",
                                           AccountStr(evaluations[eval_matches[i].idx][
                                               IF eval_matches[i].account_type = "challenge"
                                               THEN AccountCh ELSE AccountFu]),
                                           <<>>, None, None, None, 0)
                             wr(i) == [pass |-> pass, rollup |-> ai, key |-> agg.key,
                                       account_number |-> agg.account_number,
                                       phase_code |-> agg.phase_code,
                                       dated |-> ~IsNone(agg.farming_date),
                                       row |-> eval_matches[i].idx,
                                       account_type |-> eval_matches[i].account_type,
                                       field |-> Val(field_name), value |-> agg.net_profit,
                                       free_before |-> RowHasFreeDay(evaluations[eval_matches[i].idx])]
                             RECURSIVE lines(_), recs(_)
                             lines(i) == IF i > Len(eval_matches) THEN <<>>
                                         ELSE (IF i \in hit THEN <<line(i), row(i)>> ELSE <<>>)
                                              \o lines(i + 1)
                             recs(i) == IF i > Len(eval_matches) THEN <<>>
                                        ELSE (IF i \in hit THEN <<wr(i)>> ELSE <<>>) \o recs(i + 1)
                         IN  /\ evaluations' = WriteCells(evaluations, rows, Val(field_name), agg.net_profit)
                             /\ updates_made' = updates_made + Cardinality(hit)
                             /\ match_log' = match_log \o lines(1)
                             /\ writes' = writes \o recs(1)
    /\ ai' = ai + 1
    /\ UNCHANGED <<deals, pc, pass, di, aggregator, skipped, aggregated, eval_lookup, after_first>>

\* the end of the update loop: the total, and the return
FinishPass ==
    /\ pc = "match"
    /\ ai > Len(aggregated)
    /\ match_log' = Append(match_log, CountLine("TotalUpdates", updates_made))
    /\ pc' = "done"
    /\ UNCHANGED <<deals, evaluations, pass, di, aggregator, skipped, aggregated,
                   eval_lookup, ai, updates_made, writes, after_first>>

\* the caller runs the pass again with the same deal list on the ledger the
\* pass returned
Rerun ==
    /\ pc = "done"
    /\ pass < MaxPass
    /\ pass' = pass + 1
    /\ after_first' = IF pass = 1 THEN evaluations ELSE after_first
    /\ pc' = "start"
    /\ UNCHANGED <<deals, evaluations, di, aggregator, skipped, aggregated, eval_lookup,
                   ai, match_log, updates_made, writes>>

Next ==
    \/ EarlyReturn
    \/ BeginPass
    \/ AddDeal
    \/ NoGroups
    \/ BuildLookupStep
    \/ ProcessRollup
    \/ FinishPass

\* one call of process_deals_for_evaluations
Spec == Init /\ [][Next]_vars
SpecFold == InitFold /\ [][Next]_vars

\* repeated calls on the same deal list and ledger
NextRerun == Next \/ Rerun
SpecRerun == Init /\ [][NextRerun]_vars

(***************************************************************************)
(* Properties                                                              *)
(***************************************************************************)
Written(p, j) == \E i \in 1..Len(writes) : writes[i].pass = p /\ writes[i].rollup = j
FirstPassDone == pc = "done" /\ pass = 1

\* the account fields of the ledger, as (row, role, account) triples
LedgerAccounts(evs) ==
    {[idx |-> i, account_type |-> "challenge", account |-> AccountStr(evs[i][AccountCh])] :
        i \in 1..Len(evs)}
    \cup {[idx |-> i, account_type |-> "funded", account |-> AccountStr(evs[i][AccountFu])] :
        i \in 1..Len(evs)}
FilledAccounts(evs) == {c \in LedgerAccounts(evs) : c.account # <<>>}

\* the three tiers as stated: equality with a full ledger account value, the
\* identity's trailing 12, 10, 8 characters equal to one, containment
TierExact(account, evs) == {c \in FilledAccounts(evs) : c.account = account}
TierSuffixLen(account, evs, n) ==
    IF Len(account) >= n THEN {c \in FilledAccounts(evs) : c.account = Suffix(account, n)} ELSE {}
TierSuffix(account, evs) ==
    IF TierSuffixLen(account, evs, 12) # {} THEN TierSuffixLen(account, evs, 12)
    ELSE IF TierSuffixLen(account, evs, 10) # {} THEN TierSuffixLen(account, evs, 10)
    ELSE TierSuffixLen(account, evs, 8)
TierContain(account, evs) ==
    {c \in FilledAccounts(evs) : Contains(c.account, account) \/ Contains(account, c.account)}
Tiers(account, evs) == <<TierExact(account, evs), TierSuffix(account, evs), TierContain(account, evs)>>
FirstTier(account, evs) ==
    IF \E t \in 1..3 : Tiers(account, evs)[t] # {}
    THEN Min({t \in 1..3 : Tiers(account, evs)[t] # {}}) ELSE 0

\* role compatibility as stated: CH with the challenge account, FD, DD and FA
\* with the funded account
RoleFits(phase_code, account_type) ==
    \/ phase_code = CH /\ account_type = "challenge"
    \/ phase_code \in {FD, DD, FA} /\ account_type = "funded"

Mappable(agg) ==
    ~IsNone(get_field_name_for_phase(agg.phase_code, agg.trade_number, agg.farming_date,
                                     evaluations, 1))

\* C1: running the pass again with the same deal list on the ledger the
\* first run produced leaves the ledger unchanged
C1_RerunLeavesLedgerUnchanged ==
    (pass = 2 /\ pc = "done") => evaluations = after_first

\* C2: within one pass, dated farming rollups written to the same row land
\* in different Hedge Day slots as long as the row has a free slot
C2_FarmingRollupsGetDistinctSlots ==
    \A i, j \in 1..Len(writes) :
        (/\ i < j
         /\ writes[i].pass = writes[j].pass
         /\ writes[i].phase_code = FA /\ writes[i].dated
         /\ writes[j].phase_code = FA /\ writes[j].dated
         /\ writes[i].row = writes[j].row
         /\ writes[j].free_before)
        => writes[i].field # writes[j].field

\* C3: every ledger write goes through a role-compatible account field of
\* the written row (CH through 'Account #', FD, DD and FA through
\* 'Account #.1'), and that field is the one the rollup's account matched
C3_WritesThroughCompatibleRole ==
    \A i \in 1..Len(writes) :
        LET w == writes[i]
            account == AccountStr(evaluations[w.row][
                           IF w.account_type = "challenge" THEN AccountCh ELSE AccountFu])
        IN  /\ w.phase_code = CH => w.account_type = "challenge"
            /\ w.phase_code \in {FD, DD, FA} => w.account_type = "funded"
            /\ account # <<>>
            /\ Contains(account, w.account_number) \/ Contains(w.account_number, account)
               \/ \E n \in {8, 10, 12} :
                     /\ Len(account) >= n
                     /\ Contains(w.account_number, Suffix(account, n))

\* a funded rollup was written although an earlier row carries the same
\* account as its challenge account
C3_Witness ==
    \E i \in 1..Len(writes) :
        /\ writes[i].phase_code = FD
        /\ \E r \in 1..(writes[i].row - 1) :
              AccountStr(evaluations[r][AccountCh]) = writes[i].account_number

\* C4: when the first tier that matches holds only role-incompatible
\* candidates and a lower tier holds a role-compatible one, the rollup is
\* written to a role-compatible row
C4_FallsThroughOnRoleMismatch ==
    FirstPassDone =>
        \A j \in 1..Len(aggregated) :
            LET agg == aggregated[j]
                tiers == Tiers(agg.account_number, evaluations)
                top == FirstTier(agg.account_number, evaluations)
            IN  (/\ top # 0
                 /\ Mappable(agg)
                 /\ \A c \in tiers[top] : ~RoleFits(agg.phase_code, c.account_type)
                 /\ \E t \in (top + 1)..3 : \E c \in tiers[t] : RoleFits(agg.phase_code, c.account_type))
                => Written(1, j)

\* C5: when some account field of the ledger equals the identity account
\* exactly, the candidates are the exactly-equal rows and no others
C5_ExactMatchExcludesSuffixRows ==
    (pc = "match" /\ ai <= Len(aggregated)) =>
        LET agg == aggregated[ai]
            found == find_evaluation_match(agg.account_number, agg.phase_code, eval_lookup)
            exact == TierExact(agg.account_number, evaluations)
        IN  exact # {} =>
                {<<found[k].idx, found[k].account_type>> : k \in 1..Len(found)}
                = {<<c.idx, c.account_type>> : c \in exact}

\* C6: a rollup is written to at most one row per pass, the first
\* role-compatible candidate in ledger order
C6_OneWritePerRollup ==
    /\ \A i, j \in 1..Len(writes) :
          (writes[i].pass = writes[j].pass /\ writes[i].rollup = writes[j].rollup) => i = j
    /\ \A i \in 1..Len(writes) :
          LET w == writes[i]
              found == find_evaluation_match(w.account_number, w.phase_code, eval_lookup)
          IN  w.row = Min({found[k].idx : k \in {m \in 1..Len(found) :
                                RoleFits(w.phase_code, found[m].account_type)}})

\* a rollup with role-compatible candidates on two rows was written
C6_Witness ==
    \E i \in 1..Len(writes) :
        LET w == writes[i]
            found == find_evaluation_match(w.account_number, w.phase_code, eval_lookup)
        IN  \E k, m \in 1..Len(found) :
                /\ found[k].idx # found[m].idx
                /\ RoleFits(w.phase_code, found[k].account_type)
                /\ RoleFits(w.phase_code, found[m].account_type)

\* C7: every rollup that was not written has a line in the match log that
\* names it and the reason
C7_EveryDroppedRollupIsLogged ==
    FirstPassDone =>
        \A j \in 1..Len(aggregated) :
            LET agg == aggregated[j]
            IN  \/ Written(1, j)
                \/ \E k \in 1..Len(match_log) :
                      /\ match_log[k].kind \in {"NoMatch", "UnknownField"}
                      /\ match_log[k].phase_code = agg.phase_code
                      /\ match_log[k].trade = TradeOrEmpty(agg.trade_number)

Bijections(n) == {f \in [1..n -> 1..n] : \A i, j \in 1..n : f[i] = f[j] => i = j}
Perms(s) == {[i \in 1..Len(s) |-> s[f[i]]] : f \in Bijections(Len(s))}

IdentityView(agg) ==
    [dict_key |-> agg.dict_key, key |-> get_key(agg), account_number |-> agg.account_number,
     phase |-> agg.phase, phase_code |-> agg.phase_code, trade_number |-> agg.trade_number,
     farming_date |-> agg.farming_date, deal_count |-> agg.deal_count]
TotalsView(agg) ==
    [dict_key |-> agg.dict_key, total_profit |-> agg.total_profit,
     total_commission |-> agg.total_commission, total_swap |-> agg.total_swap,
     total_fee |-> agg.total_fee]
IdentityViews(self) == {IdentityView(self.aggregations[i]) : i \in 1..Len(self.aggregations)}
TotalsViews(self) == {TotalsView(self.aggregations[i]) : i \in 1..Len(self.aggregations)}
UnmatchedSet(self) == {self.unmatched_deals[i] : i \in 1..Len(self.unmatched_deals)}

\* process_deals has returned and nothing else has run since
AggregationDone == pc = "aggregate" /\ di > Len(deals)

\* every amount is below 2^53 eighths of a dollar, so no sum is rounded
SumsExact(ds) ==
    \A i \in 1..Len(ds) :
        /\ AmountOr0(ds[i].profit).hi = 0 /\ AmountOr0(ds[i].commission).hi = 0
        /\ AmountOr0(ds[i].swap).hi = 0 /\ AmountOr0(ds[i].fee).hi = 0

\* C8 as stated: every permutation of the deal list gives the same set of
\* rollups, totals included, and the same set of unmatched deals
C8_PermutationGivesSameRollups ==
    AggregationDone =>
        \A p \in Perms(deals) :
            LET other == process_deals(p)
            IN  /\ IdentityViews(other) = IdentityViews(aggregator)
                /\ TotalsViews(other) = TotalsViews(aggregator)
                /\ UnmatchedSet(other) = UnmatchedSet(aggregator)

\* C8 as amended: every permutation gives the same rollup identities, deal
\* counts and unmatched deals, and the same four totals when no sum is
\* rounded
C8_FoldCommutesWhenExact ==
    AggregationDone =>
        \A p \in Perms(deals) :
            LET other == process_deals(p)
            IN  /\ IdentityViews(other) = IdentityViews(aggregator)
                /\ UnmatchedSet(other) = UnmatchedSet(aggregator)
                /\ SumsExact(deals) => TotalsViews(other) = TotalsViews(aggregator)

\* two deals with different amounts were folded into one rollup, no sum rounded
C8_Witness ==
    /\ AggregationDone
    /\ SumsExact(deals)
    /\ \E i \in 1..Len(aggregator.aggregations) :
          LET ds == aggregator.aggregations[i].deals
          IN  \E a, b \in 1..Len(ds) : ds[a].profit # ds[b].profit

\* the deal types named as balance operations, compared case-insensitively
IsBalanceType(deal) ==
    /\ ~IsNone(deal.type)
    /\ Upper(PyStr(Val(deal.type))) \in
          {<<"B", "A", "L", "A", "N", "C", "E">>, <<"C", "R", "E", "D", "I", "T">>,
           <<"C", "H", "A", "R", "G", "E">>, <<"C", "O", "R", "R", "E", "C", "T", "I", "O", "N">>,
           <<"B", "O", "N", "U", "S">>, <<"2">>, <<"3">>}
NotBalanceType(deal) == ~IsBalanceType(deal)
Processed == SubSeq(deals, 1, di - 1)

\* C9: a balance-type deal is in no rollup's deals list and not in the
\* unmatched list, and the aggregator is what it would be without such deals
C9_BalanceOpsNeverCounted ==
    /\ \A i \in 1..Len(aggregator.aggregations) :
          \A k \in 1..Len(aggregator.aggregations[i].deals) :
              ~IsBalanceType(aggregator.aggregations[i].deals[k])
    /\ \A k \in 1..Len(aggregator.unmatched_deals) : ~IsBalanceType(aggregator.unmatched_deals[k])
    /\ aggregator = process_deals(SelectSeq(Processed, NotBalanceType))

\* a balance-type deal whose comment is a valid identity was processed and a
\* rollup of that identity exists
C9_Witness ==
    \E i \in 1..(di - 1) :
        /\ IsBalanceType(deals[i])
        /\ parse(deals[i].comment).is_valid
        /\ KeyIndex(aggregator.aggregations, build_key(parse(deals[i].comment))) # 0

Count(d, s) == Cardinality({i \in 1..Len(s) : s[i] = d})
RECURSIVE SumDealCount(_)
SumDealCount(aggs) == IF aggs = <<>> THEN 0 ELSE Head(aggs).deal_count + SumDealCount(Tail(aggs))
RECURSIVE CountInRollups(_, _)
CountInRollups(d, aggs) ==
    IF aggs = <<>> THEN 0 ELSE Count(d, Head(aggs).deals) + CountInRollups(d, Tail(aggs))

\* C10: each processed deal is excluded, unmatched or in exactly one rollup;
\* the three counts add up to the number of deals, and the loop reaches the
\* end of the list
C10_EveryDealHandledOnce ==
    /\ skipped + Len(aggregator.unmatched_deals) + SumDealCount(aggregator.aggregations) = di - 1
    /\ \A i \in 1..(di - 1) :
          LET d == deals[i]
              valid == parse(d.comment).is_valid /\ ~IsNone(parse(d.comment).account_number)
          IN  /\ Count(d, aggregator.unmatched_deals)
                    = IF ~IsBalanceType(d) /\ ~valid THEN Count(d, Processed) ELSE 0
              /\ CountInRollups(d, aggregator.aggregations)
                    = IF ~IsBalanceType(d) /\ valid THEN Count(d, Processed) ELSE 0
              /\ Cardinality({k \in 1..Len(aggregator.aggregations) :
                                 Count(d, aggregator.aggregations[k].deals) > 0}) <= 1
    /\ pc \in {"match", "done"} /\ deals # <<>> /\ evaluations # <<>> => di = Len(deals) + 1

\* a batch with an excluded deal, an unmatched deal and a rollup was processed
C10_Witness ==
    /\ AggregationDone
    /\ skipped >= 1
    /\ Len(aggregator.unmatched_deals) >= 1
    /\ Len(aggregator.aggregations) >= 1

(***************************************************************************)
(* Key runs: lists of deals whose comments are one bare account and        *)
(* identities that differ in one component only                            *)
(***************************************************************************)
MaxKeyDeals == 2

AcctA == <<"A">>
SfxFD01 == <<"_", "F", "D", "0", "1">>
SfxFD10 == <<"_", "F", "D", "1", "0">>
SfxDD1 == <<"_", "D", "D", "1">>
SfxFA == <<"_", "F", "A">>
SfxFA31Feb == <<"_", "F", "A", "_", "3", "1", "0", "2", "2", "6">>
SfxUNK == <<"_", "U", "N", "K">>
SfxX == <<"_", "x">>
Combine0 == CombineWord \o <<"0">>
Combine1 == CombineWord \o <<"1">>

KeyComments ==
    {Comment(AcctA, s) : s \in {<<>>, SfxFD0, SfxFD1, SfxFD01, SfxFD10, SfxCH1, SfxDD1, SfxFA,
                                SfxFA21, SfxFA22, SfxFA31Feb, SfxUNK, SfxCH1 \o SfxFD0}}
    \cup {Comment(<<"a">>, SfxCH1), Comment(Combine0, SfxX), Comment(Combine1, SfxX)}

TradeWithComment(c) == Deal(1, c, Buy, Dollars(1), None, None, None)
KeyPool == {TradeWithComment(c) : c \in KeyComments}

InitKeys == \E ds \in SeqsUpTo(KeyPool, MaxKeyDeals) : InitWith(ds, FoldLedger)
SpecKeys == InitKeys /\ [][Next]_vars

\* the identity of a parse result and of a rollup
Identity(p) == <<p.account_number, p.phase_code, p.trade_number, p.farming_date>>
RollupIdentity(agg) ==
    <<Some(agg.account_number), Some(agg.phase_code), agg.trade_number, agg.farming_date>>
\* add_deal sends the deal to a rollup
Aggregates(d) ==
    /\ ~IsBalanceOp(d)
    /\ parse(d.comment).is_valid
    /\ ~IsNone(parse(d.comment).account_number)
    /\ Val(parse(d.comment).account_number) # <<>>

\* C11: rollups of one result have pairwise different identities and
\* pairwise different exposed keys; every deal of a rollup parses to the
\* rollup's identity; two processed deals of different identities have
\* different grouping keys and different exposed keys (both when the
\* aggregation returns); the keys of the dashboard serialization are
\* pairwise different
C11_KeysAreCollisionFree ==
    LET aggs == aggregator.aggregations
    IN  /\ \A i, j \in 1..Len(aggs) :
              i # j => /\ RollupIdentity(aggs[i]) # RollupIdentity(aggs[j])
                       /\ get_key(aggs[i]) # get_key(aggs[j])
        /\ AggregationDone =>
              \A i \in 1..Len(aggs) : \A k \in 1..Len(aggs[i].deals) :
                  Identity(parse(aggs[i].deals[k].comment)) = RollupIdentity(aggs[i])
        /\ AggregationDone =>
              \A i, j \in 1..Len(deals) :
                  i < j /\ Aggregates(deals[i]) /\ Aggregates(deals[j])
                  => LET p == parse(deals[i].comment)
                         q == parse(deals[j].comment)
                     IN  Identity(p) # Identity(q)
                         => /\ build_key(p) # build_key(q)
                            /\ get_key(AggregatedTrade(build_key(p), p))
                                   # get_key(AggregatedTrade(build_key(q), q))
        /\ \A i, j \in 1..Len(aggregated) : i # j => aggregated[i].key # aggregated[j].key

\* two rollups of one account and one phase code that differ in the trade
\* number or in the date only were serialized
C11_Witness ==
    /\ pc = "done"
    /\ \E i, j \in 1..Len(aggregated) :
          /\ i # j
          /\ aggregated[i].account_number = aggregated[j].account_number
          /\ aggregated[i].phase_code = aggregated[j].phase_code
          /\ \/ aggregated[i].trade_number = Some(0)
             \/ ~IsNone(aggregated[i].farming_date)

\* the key the documented format gives a rollup
FormatKey(agg) ==
    agg.account_number \o <<"_">> \o agg.phase_code
    \o (IF ~IsNone(agg.trade_number) THEN IntToStr(Val(agg.trade_number)) ELSE <<>>)
    \o (IF ~IsNone(agg.farming_date) THEN <<"_">> \o StrfTime(Val(agg.farming_date)) ELSE <<>>)

\* C12: the exposed key of every rollup is account, "_", phase code, the
\* decimal trade number when there is one (0 included), and "_" ddmmyy when
\* there is a date
C12_KeyHasDocumentedFormat ==
    /\ \A i \in 1..Len(aggregator.aggregations) :
          get_key(aggregator.aggregations[i]) = FormatKey(aggregator.aggregations[i])
    /\ \A i \in 1..Len(aggregated) :
          Len(aggregator.aggregations) = Len(aggregated)
          => aggregated[i].key = FormatKey(aggregator.aggregations[i])

(***************************************************************************)
(* One MT5DealAggregator instance used again and again: direct add_deal    *)
(* calls, and process_deals calls on the same deal list                    *)
(***************************************************************************)
MaxReuseDeals == 2
MaxPrior == 3

\* a challenge trade, the same identity written "_ch01", a balance operation
\* and a deal without comment
ReusePool == {d \in FoldPool : d.ticket \in {11, 14, 15, 17}}

InitReuse == \E ds \in SeqsUpTo(ReusePool, MaxReuseDeals) : InitWith(ds, FoldLedger)

\* the deals an aggregator holds
Held(self) == Len(self.unmatched_deals) + SumDealCount(self.aggregations)

\* mutant: process_deals without its reset
process_deals_keep(self) == self

\* the self.reset() at the head of process_deals
process_deals_reset(self) == reset

\* aggregator.add_deal(d), called directly between two process_deals calls
PriorAddDeal ==
    /\ pc = "start"
    /\ Held(aggregator) < MaxPrior
    /\ \E d \in ReusePool : aggregator' = add_deal(aggregator, d)
    /\ UNCHANGED <<deals, evaluations, pc, pass, di, skipped, aggregated, eval_lookup, ai,
                   match_log, updates_made, writes, after_first>>

\* aggregator.process_deals(deals) is entered
StartProcessDeals ==
    /\ pc = "start"
    /\ aggregator' = process_deals_reset(aggregator)
    /\ skipped' = 0
    /\ di' = 1
    /\ pc' = "aggregate"
    /\ UNCHANGED <<deals, evaluations, pass, aggregated, eval_lookup, ai, match_log,
                   updates_made, writes, after_first>>

\* process_deals returns; the caller keeps the instance
ReturnProcessDeals ==
    /\ pc = "aggregate"
    /\ di > Len(deals)
    /\ pass < MaxPass
    /\ pass' = pass + 1
    /\ pc' = "start"
    /\ UNCHANGED <<deals, evaluations, di, aggregator, skipped, aggregated, eval_lookup, ai,
                   match_log, updates_made, writes, after_first>>

NextReuse ==
    \/ PriorAddDeal
    \/ StartProcessDeals
    \/ AddDeal
    \/ ReturnProcessDeals

SpecReuse == InitReuse /\ [][NextReuse]_vars

\* C13: whatever the instance held before, when process_deals(D) returns the
\* rollups, the unmatched list and the log are those of a fresh aggregator
\* for D, in every call
C13_ProcessDealsIsStateless ==
    AggregationDone =>
        /\ aggregator.aggregations = process_deals(deals).aggregations
        /\ aggregator.unmatched_deals = process_deals(deals).unmatched_deals
        /\ aggregator.parse_log = process_deals(deals).parse_log

\* the second call on an instance that held a rollup and an unmatched deal
\* has returned a rollup and an unmatched deal
C13_Witness ==
    /\ AggregationDone
    /\ pass = 2
    /\ Len(aggregator.aggregations) >= 1
    /\ Len(aggregator.unmatched_deals) >= 1

\* how add_deal disposes of a deal
Disposition(d) ==
    IF IsBalanceOp(d) THEN "Skipped" ELSE IF Aggregates(d) THEN "Aggregated" ELSE "Unmatched"

\* C14: when the aggregation returns, its log has exactly one line per input
\* deal, in input order, and the line's prefix tells whether the deal was
\* aggregated, unmatched or skipped as a balance operation
C14_LogHasOneLinePerDeal ==
    AggregationDone =>
        /\ Len(aggregator.parse_log) = Len(deals)
        /\ \A i \in 1..Len(deals) :
              i <= Len(aggregator.parse_log) => aggregator.parse_log[i].kind = Disposition(deals[i])

(***************************************************************************)
(* Parser runs: batches of deals whose comments are an account followed by *)
(* a suffix, in every combination, and comments without that shape         *)
(***************************************************************************)
MaxParseDeals == 1

ParseAccounts == {AcctA, AcctA \o SfxFA, Combine1, <<"a">>}
ParseSuffixes ==
    {<<>>, SfxCH1, <<"_", "C", "H", "2">>, <<"_", "c", "h", "5">>, <<"_", "C", "H", "0">>,
     SfxFD0, <<"_", "F", "D", "4">>, SfxFD10, SfxDD1, <<"_", "D", "D", "9">>, SfxCh01,
     SfxFA, <<"_", "f", "a">>, SfxFA21, SfxFA31Feb,
     <<"_", "f", "a", "_", "0", "0", "0", "0", "0", "0">>,
     <<"_", "F", "A", "_", "2", "1", "0", "1", "2">>,
     SfxUNK, <<"_", "u", "n", "k">>, SfxX, <<"_", "C", "H">>, SfxCH1 \o <<" ">>}
OtherComments ==
    {None, Some(<<>>), Some(<<" ", " ">>), Some(<<" ", "h", "i", " ">>),
     Some(CombineWord), Some(CombineWord \o <<"x">>), Some(<<" ">> \o CombineWord),
     Some(SfxCH1), Some(SfxUNK), Some(Lower(Combine1) \o SfxX),
     Some(CombineWord \o <<"1", "2", "_">>), Some(Combine0 \o SfxX)}
CommentPool == {Comment(a, s) : a \in ParseAccounts, s \in ParseSuffixes} \cup OtherComments
ParsePool == {TradeWithComment(c) : c \in CommentPool}

InitParse == \E ds \in SeqsUpTo(ParsePool, MaxParseDeals) : InitWith(ds, FoldLedger)
SpecParse == InitParse /\ [][Next]_vars

\* the comments add_deal has parsed so far
ParsedComments == {deals[i].comment : i \in {j \in 1..(di - 1) : ~IsBalanceOp(deals[j])}}
\* the text the rules are matched against
Stripped(comment) == IF IsNone(comment) THEN <<>> ELSE Strip(Val(comment))
\* the first rule, 1..5, whose pattern matches the text; 0 when none does
FirstRule(s) ==
    IF NumberedSplits(s) # {} THEN 1
    ELSE IF FarmingDateMatches(s) THEN 2
    ELSE IF SimpleFarmingMatches(s) THEN 3
    ELSE IF UnknownMatches(s) THEN 4
    ELSE IF LegacyMatches(s) THEN 5
    ELSE 0

\* C15: a valid parse result has a non-empty account and a phase; a comment
\* that is an account only (no rule matches, not the legacy prefix) has the
\* account, no phase, and is not valid
C15_ValidMeansAccountAndPhase ==
    \A c \in ParsedComments :
        LET p == parse(c)
        IN  /\ p.is_valid => /\ ~IsNone(p.account_number)
                             /\ Val(p.account_number) # <<>>
                             /\ ~IsNone(p.phase)
            /\ FirstRule(Stripped(c)) = 0 /\ Stripped(c) # <<>>
                  /\ ~StartsWith(Stripped(c), CombineWord)
               => /\ ~IsNone(p.account_number)
                  /\ Val(p.account_number) # <<>>
                  /\ ~p.is_valid
                  /\ IsNone(p.phase)

\* a comment with the unknown-phase marker went through add_deal and parsed
\* as a valid identity of phase Unknown
C15_Witness ==
    /\ pc = "done"
    /\ \E c \in ParsedComments :
          /\ parse(c).is_valid
          /\ parse(c).phase = Some("UNKNOWN")
          /\ parse(c).account_number = Some(AcctA \o SfxFA)

\* the result the handler of rule k builds from the stripped comment
RuleResult(k, s) ==
    CASE k = 1 -> parse_numbered_phase(s)
      [] k = 2 -> parse_farming_with_date(s)
      [] k = 3 -> parse_simple_farming(s)
      [] k = 4 -> parse_unknown_phase(s)
      [] k = 5 -> parse_legacy_combine(s)

\* C16: the result is the one the first matching rule builds, in the order
\* numbered phase, farming with date, simple farming, unknown marker, legacy;
\* "Combine1_CH1" is Challenge 1 of account "Combine1" and "A_FA_CH2" is
\* Challenge 2 of account "A_FA"
C16_FirstMatchingRuleWins ==
    \A c \in ParsedComments :
        /\ FirstRule(Stripped(c)) # 0
              => parse(c) = RuleResult(FirstRule(Stripped(c)), Stripped(c))
        /\ NumberedSplits(Stripped(c)) # {} => parse(c).phase_code \in {Some(CH), Some(FD), Some(DD)}
        /\ c = Comment(Combine1, SfxCH1)
              => parse(c) = ParsedComment(Some(Combine1), Some("CHALLENGE"), Some(CH), Some(1),
                                          None, Val(c), TRUE)
        /\ c = Comment(AcctA \o SfxFA, <<"_", "C", "H", "2">>)
              => parse(c) = ParsedComment(Some(AcctA \o SfxFA), Some("CHALLENGE"), Some(CH),
                                          Some(2), None, Val(c), TRUE)

\* "Combine1_CH1", which the numbered rule and the legacy rule both match,
\* was parsed and aggregated under the account "Combine1"
C16_Witness ==
    /\ pc = "done"
    /\ Comment(Combine1, SfxCH1) \in ParsedComments
    /\ LegacyMatches(Combine1 \o SfxCH1)
    /\ Len(aggregated) = 1
    /\ aggregated[1].account_number = Combine1
    /\ aggregated[1].phase_code = CH

\* the digits a comment ends with
TrailingDigits(s) ==
    LET nd == {i \in 1..Len(s) : ~IsDigit(s[i])}
    IN  IF nd = {} THEN s ELSE SubSeq(s, Max(nd) + 1, Len(s))

AllAbsent(p) ==
    /\ IsNone(p.account_number) /\ IsNone(p.phase) /\ IsNone(p.phase_code)
    /\ IsNone(p.trade_number) /\ IsNone(p.farming_date) /\ ~p.is_valid

\* C18 as stated: a non-empty comment that matches no rule and does not
\* start with "Combine" has the whole comment as account, no phase, and is
\* not valid; an empty comment has no field
C18_FallbackIsWholeComment ==
    \A c \in ParsedComments :
        LET p == parse(c)
        IN  /\ ~IsNone(c) /\ Val(c) # <<>> /\ FirstRule(Stripped(c)) = 0
                  /\ ~StartsWith(Val(c), CombineWord)
               => p.account_number = c /\ IsNone(p.phase) /\ ~p.is_valid
            /\ IsNone(c) \/ c = Some(<<>>) => AllAbsent(p)

\* C18, amended: with s the comment stripped of surrounding whitespace, a
\* comment that matches no rule has account s, no other field and is not
\* valid when s is non-empty and does not start with "Combine"; it has no
\* field at all when s is empty or starts with "Combine", and when there is
\* no comment; raw_comment is the comment as given
C18_FallbackIsStrippedComment ==
    \A c \in ParsedComments :
        LET p == parse(c)
            s == Stripped(c)
        IN  /\ FirstRule(s) = 0 /\ s # <<>> /\ ~StartsWith(s, CombineWord)
               => /\ p.account_number = Some(s)
                  /\ IsNone(p.phase) /\ IsNone(p.phase_code)
                  /\ IsNone(p.trade_number) /\ IsNone(p.farming_date)
                  /\ ~p.is_valid
            /\ FirstRule(s) = 0 /\ (s = <<>> \/ StartsWith(s, CombineWord)) => AllAbsent(p)
            /\ FirstRule(s) = 0 => p.raw_comment = (IF IsNone(c) THEN <<>> ELSE Val(c))

\* a comment with surrounding blanks that matches no rule went to the
\* unmatched list
C18_Witness ==
    /\ pc = "done"
    /\ Some(<<" ", "h", "i", " ">>) \in ParsedComments
    /\ Len(aggregator.unmatched_deals) = 1

\* C19: "{account}_FA_" and six digits that are no calendar date parse as a
\* valid Farming identity of that account without date and without trade
\* number, and the deal is added to the rollup of that identity, not to the
\* unmatched list
C19_BadDateIsValidFarming ==
    \A i \in 1..(di - 1) :
        LET c == deals[i].comment
            s == Stripped(c)
            p == parse(c)
        IN  ~IsBalanceOp(deals[i]) /\ FirstRule(s) = 2 /\ IsNone(StrpTime(Suffix(s, 6)))
            => /\ p.is_valid
               /\ p.phase = Some("FARMING") /\ p.phase_code = Some(FA)
               /\ p.account_number = Some(SubSeq(s, 1, Len(s) - 10))
               /\ IsNone(p.farming_date) /\ IsNone(p.trade_number)
               /\ Count(deals[i], aggregator.unmatched_deals) = 0
               /\ \E k \in 1..Len(aggregator.aggregations) :
                     /\ RollupIdentity(aggregator.aggregations[k]) = Identity(p)
                     /\ Count(deals[i], aggregator.aggregations[k].deals) >= 1

\* a farming comment dated 31 February was aggregated and serialized as a
\* farming rollup without date
C19_Witness ==
    /\ pc = "done"
    /\ Comment(AcctA, SfxFA31Feb) \in ParsedComments
    /\ Len(aggregated) = 1
    /\ aggregated[1].phase_code = FA
    /\ IsNone(aggregated[1].farming_date)
    /\ aggregated[1].deal_count = 1

(***************************************************************************)
(* Resolver runs: the update loop entered with one rollup of any phase     *)
(* code, ordinal and date against a row that holds the rollup's account in *)
(* both account fields                                                     *)
(***************************************************************************)
MaxOrdinal == 7

ResolverCodes == {CH, FD, DD, FA, <<"U", "N", "K">>}
ResolverOrdinals == {None} \cup {Some(n) : n \in 0..MaxOrdinal}
                    \cup {Some(NumHedgeDays), Some(NumHedgeDays + 1)}
ResolverDates == {None, Some([day |-> 21, month |-> 1, year |-> 2026])}

\* the dashboard dict of a rollup of one deal with the given identity
ResolverRollup(code, trade, date) ==
    LET p == ParsedComment(Some(Acct10),
                           Some(IF code = FA THEN "FARMING" ELSE PhaseOfCode(code)),
                           Some(code), trade, date, <<>>, TRUE)
    IN  to_dict(Accumulate(AggregatedTrade(build_key(p), p), TradeWithComment(None)))

InitResolve ==
    \E code \in ResolverCodes, trade \in ResolverOrdinals, date \in ResolverDates :
        /\ deals = <<>>
        /\ evaluations = FoldLedger
        /\ pc = "match"
        /\ pass = 1
        /\ di = 1
        /\ aggregator = reset
        /\ skipped = 0
        /\ aggregated = <<ResolverRollup(code, trade, date)>>
        /\ eval_lookup = BuildLookup(FoldLedger)
        /\ ai = 1
        /\ match_log = <<>>
        /\ updates_made = 0
        /\ writes = <<>>
        /\ after_first = <<>>

NextResolve ==
    \/ ProcessRollup
    \/ FinishPass

SpecResolve == InitResolve /\ [][NextResolve]_vars

\* the mapping table: the field of a phase code and an ordinal without date,
\* None where the table has no line
TableField(code, trade) ==
    LET n == IF IsNone(trade) THEN -1 ELSE Val(trade)
    IN  IF code = CH /\ n \in 1..5 THEN Some(HedgeResult(n))
        ELSE IF code = FD /\ n = 0 THEN Some(HedgeResultDot1(1))
        ELSE IF code = FD /\ n \in 1..4 THEN Some(HedgeResultDot1(n + 1))
        ELSE IF code = FD /\ n = 5 THEN Some(HedgeResult(6))
        ELSE IF code = FD /\ n = 6 THEN Some(HedgeResult(7))
        ELSE IF code = DD /\ n \in 1..2 THEN Some(HedgeResultDot1(n + 3))
        ELSE IF code = DD /\ n \in 3..4 THEN Some(HedgeResult(n + 3))
        ELSE IF code = FA /\ n \in 1..NumHedgeDays THEN Some(HedgeDay(n))
        ELSE None

\* C20: a rollup without date is written to the field the table gives for
\* its phase code and ordinal (CH 1..5, FD 0, FD 1..4, FD 5, FD 6, DD 1..2,
\* DD 3..4, FA 1..34), and to no field where the table has no line
C20_ResolverFollowsTable ==
    /\ \A i \in 1..Len(writes) :
          LET agg == aggregated[writes[i].rollup]
          IN  IsNone(agg.farming_date)
              => Some(writes[i].field) = TableField(agg.phase_code, agg.trade_number)
    /\ \A j \in 1..(ai - 1) :
          IsNone(aggregated[j].farming_date)
          => /\ Written(pass, j) <=> ~IsNone(TableField(aggregated[j].phase_code,
                                                        aggregated[j].trade_number))
             /\ get_field_name_for_phase(aggregated[j].phase_code, aggregated[j].trade_number,
                                         None, FoldLedger, 1)
                    = TableField(aggregated[j].phase_code, aggregated[j].trade_number)

\* a farming rollup with ordinal 34 and no date was written to Hedge Day 34
C20_Witness ==
    /\ pc = "done"
    /\ Len(writes) = 1
    /\ writes[1].phase_code = FA
    /\ aggregated[1].trade_number = Some(NumHedgeDays)
    /\ IsNone(aggregated[1].farming_date)
    /\ writes[1].field = HedgeDay(NumHedgeDays)

(***************************************************************************)
(* Field runs: deals of one account whose phases and ordinals the resolver *)
(* maps, maps to one field twice, or does not map; a legacy comment, a    *)
(* comment of an account the ledger does not hold and an invalid comment   *)
(***************************************************************************)
MaxFieldDeals == 2

LEGACY == <<"L", "E", "G", "A", "C", "Y">>
UNK == <<"U", "N", "K">>

FieldComments ==
    {Comment(Acct10, s) : s \in {<<"_", "C", "H", "0">>, <<"_", "C", "H", "6">>,
                                 <<"_", "F", "D", "7">>, <<"_", "D", "D", "0">>, SfxUNK, SfxFA,
                                 SfxCH1, <<"_", "F", "D", "3">>, SfxDD1, <<"_", "F", "D", "5">>,
                                 <<"_", "D", "D", "3">>, SfxFA21}}
    \cup {Comment(Combine1, SfxX), Comment(AcctA, SfxUNK), Comment(AcctA, <<>>)}
FieldPool == {TradeWithComment(c) : c \in FieldComments}

\* the account in both fields of the first row, "Combine1" as the challenge
\* account of the second
FieldLedger == <<Row(StrCell(Acct10), StrCell(Acct10), 0), Row(StrCell(Combine1), MissingCell, 0)>>

InitFields == \E ds \in SeqsUpTo(FieldPool, MaxFieldDeals) : InitWith(ds, FieldLedger)
SpecFields == InitFields /\ [][Next]_vars

\* phase and ordinal combinations without a line in the mapping table
Unmappable(agg) ==
    LET has == ~IsNone(agg.trade_number)
        n == IF has THEN Val(agg.trade_number) ELSE -1
    IN  \/ agg.phase_code = CH /\ n \notin 1..5
        \/ agg.phase_code = FD /\ n \notin 0..6
        \/ agg.phase_code = DD /\ n \notin 1..4
        \/ agg.phase_code \in {UNK, LEGACY}
        \/ agg.phase_code = FA /\ IsNone(agg.farming_date) /\ ~has

\* C21: the step of the update loop on a rollup that is not mappable gets no
\* field from the resolver, leaves the ledger as it is, appends one log line
\* for the rollup and goes on to the next rollup
C21_UnmappableRollupIsLoggedNotWritten ==
    [][(pc = "match" /\ ai <= Len(aggregated) /\ Unmappable(aggregated[ai]))
       => /\ \A idx \in 1..Len(evaluations) :
                IsNone(get_field_name_for_phase(aggregated[ai].phase_code,
                           aggregated[ai].trade_number, aggregated[ai].farming_date,
                           evaluations, idx))
          /\ evaluations' = evaluations
          /\ writes' = writes
          /\ Len(match_log') = Len(match_log) + 1
          /\ match_log'[Len(match_log')].kind \in {"NoMatch", "UnknownField"}
          /\ match_log'[Len(match_log')].phase_code = aggregated[ai].phase_code
          /\ ai' = ai + 1
          /\ pc' = "match"]_vars

\* a pass ended in which the first rollup, of a matched account, was not
\* mappable and logged as such, and the second rollup was written
C21_Witness ==
    /\ pc = "done"
    /\ Len(aggregated) = 2
    /\ Unmappable(aggregated[1])
    /\ ~Written(pass, 1)
    /\ Written(pass, 2)
    /\ \E k \in 1..Len(match_log) : match_log[k].kind = "UnknownField"

\* C29: within one pass no field of a ledger row is written by two rollups
C29_NoFieldWrittenTwice ==
    \A i, j \in 1..Len(writes) :
        /\ i # j
        /\ writes[i].pass = writes[j].pass
        /\ writes[i].row = writes[j].row
        => writes[i].field # writes[j].field

(***************************************************************************)
(* Slot runs: dated farming deals of one account against one ledger row    *)
(* that holds the account as its funded account; the first `used` farming  *)
(* days of the row are filled, and one farming day holds a missing key, a  *)
(* None, an empty string, a zero or a text; one deal has a free-text       *)
(* comment                                                                 *)
(***************************************************************************)
MaxSlotDeals == 2

SlotPool ==
    {Deal(2, Comment(Acct10, SfxFA21), Buy, Dollars(2), None, None, None),
     Deal(3, Comment(Acct10, SfxFA22), Buy, Dollars(1), Some(Amount(0, -Dollar)), None, None),
     Deal(5, Some(<<"h", "i">>), Buy, Dollars(1), None, None, None)}

SlotHoles == {2, NumHedgeDays}
HoleCells == {MissingCell, NoneCell, StrCell(<<>>), NumCell(Zero), StrCell(<<"x">>)}

SlotRow(used, hole, cell) ==
    [Row(MissingCell, StrCell(Acct10), used) EXCEPT ![HedgeDay(hole)] = cell]

SlotLedgers ==
    {<<SlotRow(used, hole, cell)>> : used \in 0..NumHedgeDays, hole \in SlotHoles, cell \in HoleCells}

InitSlots ==
    \E ds \in SeqsUpTo(SlotPool, MaxSlotDeals), evs \in SlotLedgers : InitWith(ds, evs)
SpecSlots == InitSlots /\ [][Next]_vars

\* the update loop is at a farming rollup that carries a date
AtDatedFarming ==
    /\ pc = "match"
    /\ ai <= Len(aggregated)
    /\ aggregated[ai].phase_code = FA
    /\ ~IsNone(aggregated[ai].farming_date)

\* a Hedge Day value that is missing, null, empty or zero
Vacant(cell) ==
    \/ cell.kind = "missing"
    \/ cell.kind = "none"
    \/ cell.kind = "str" /\ Len(cell.s) = 0
    \/ cell.kind = "num" /\ Amount(cell.hi, cell.lo) = Zero

\* the smallest vacant farming day of a row, the last day when none is vacant
FirstVacantDay(ev) ==
    IF \E n \in 1..NumHedgeDays : Vacant(ev[HedgeDay(n)])
    THEN CHOOSE n \in 1..NumHedgeDays :
            /\ Vacant(ev[HedgeDay(n)])
            /\ \A k \in 1..(n - 1) : ~Vacant(ev[HedgeDay(k)])
    ELSE NumHedgeDays

SlotDates == {IsoFormat([day |-> d, month |-> m, year |-> 2026]) : d \in {1, 21, 22, 28}, m \in {1, 2}}

C28_SlotIsComputedOnWrittenRow ==
    [][(AtDatedFarming /\ Len(writes') > Len(writes))
       => writes'[Len(writes')].field
              = HedgeDay(FirstVacantDay(evaluations[writes'[Len(writes')].row]))]_vars

\* a deal dict without one of the keys add_deal reads
MissingRequired(deal) ==
    \/ IsNone(deal.profit)
    \/ IsNone(deal.commission)
    \/ IsNone(deal.swap)
    \/ IsNone(deal.fee)
    \/ IsNone(deal.comment)

\* C23: a deal that lacks its profit, commission, swap, fee or comment is
\* never accepted by the aggregator: it is in no rollup's deal list, with the
\* lacking amount counted as zero, and not among the unmatched deals
C23_DealWithMissingFieldIsRejected ==
    /\ \A i \in 1..Len(aggregator.aggregations) :
          \A k \in 1..Len(aggregator.aggregations[i].deals) :
              ~MissingRequired(aggregator.aggregations[i].deals[k])
    /\ \A k \in 1..Len(aggregator.unmatched_deals) :
          ~MissingRequired(aggregator.unmatched_deals[k])

\* Python's sum() of a list of floats: left to right, from 0
RECURSIVE FloatSum(_)
FloatSum(xs) ==
    IF xs = <<>> THEN Zero
    ELSE FAdd(FloatSum(SubSeq(xs, 1, Len(xs) - 1)), xs[Len(xs)])

\* the values of one amount field over a deal list, an absent one as 0
FieldOf(ds, name) == [k \in 1..Len(ds) |-> IF IsNone(ds[k][name]) THEN Zero ELSE Val(ds[k][name])]

\* C27: in every state of the aggregator each rollup counts the deals of its
\* list, which is not empty; each of its four totals is the float sum, in
\* list order, of that field over the deals of its list; and its net profit
\* is the float sum of the four totals
C27_RollupTotalsAreSumsOverItsDeals ==
    \A i \in 1..Len(aggregator.aggregations) :
        LET r == aggregator.aggregations[i]
        IN  /\ r.deal_count = Len(r.deals)
            /\ r.deal_count >= 1
            /\ r.total_profit = FloatSum(FieldOf(r.deals, "profit"))
            /\ r.total_commission = FloatSum(FieldOf(r.deals, "commission"))
            /\ r.total_swap = FloatSum(FieldOf(r.deals, "swap"))
            /\ r.total_fee = FloatSum(FieldOf(r.deals, "fee"))
            /\ net_profit(r) = FloatSum(<<r.total_profit, r.total_commission,
                                          r.total_swap, r.total_fee>>)
            /\ to_dict(r).net_profit
                   = Round2(FloatSum(<<FloatSum(FieldOf(r.deals, "profit")),
                                       FloatSum(FieldOf(r.deals, "commission")),
                                       FloatSum(FieldOf(r.deals, "swap")),
                                       FloatSum(FieldOf(r.deals, "fee"))>>))

\* a rollup of two deals with a profit and a swap total, next to a second
\* rollup with a fee total
C27_Witness ==
    /\ AggregationDone
    /\ Len(aggregator.aggregations) = 2
    /\ aggregator.aggregations[1].deal_count = 2
    /\ aggregator.aggregations[1].total_profit # Zero
    /\ aggregator.aggregations[1].total_swap # Zero
    /\ aggregator.aggregations[2].total_fee # Zero

(***************************************************************************)
(* Scenario runs: the four deals of the module's own aggregation test, in  *)
(* any order and number, against a ledger that holds the account as a      *)
(* challenge account                                                       *)
(***************************************************************************)
MaxScenarioDeals == 4

AcctMFFU == <<"M", "F", "F", "U", "E", "V", "S", "T", "P", "3", "2", "6", "0", "5", "7", "0", "0", "8">>
Quarters(n) == Some(Amount(0, n * 25 * Cent))

ScenarioSell ==
    Deal(1, Comment(AcctMFFU, SfxCH1), Sell, Quarters(600), Quarters(-10), Some(Zero), Some(Zero))
ScenarioBuy ==
    Deal(2, Comment(AcctMFFU, SfxCH1), Buy, Quarters(301), Quarters(-5), Quarters(-2), Some(Zero))
ScenarioBalance ==
    Deal(3, Some(<<"B", "A", "L", "A", "N", "C", "E">>),
         Some(StrType(<<"B", "A", "L", "A", "N", "C", "E">>)), Dollars(10000), None, None, None)
ScenarioEmpty == Deal(4, Some(<<>>), Buy, Dollars(25), Quarters(-2), None, None)

ScenarioPool == {ScenarioSell, ScenarioBuy, ScenarioBalance, ScenarioEmpty}
ScenarioLedger == <<Row(StrCell(AcctMFFU), MissingCell, 0)>>

InitScenario == \E ds \in SeqsUpTo(ScenarioPool, MaxScenarioDeals) : InitWith(ds, ScenarioLedger)
SpecScenario == InitScenario /\ [][Next]_vars

Occurs(d) == Cardinality({k \in 1..Len(deals) : deals[k] = d})

\* C24: once a deal list that holds each of the two CH1 deals once has been
\* aggregated, the dashboard has one rollup, with net_profit 221.00,
\* deal_count 2 and key 'MFFUEVSTP326057008_CH1'; the BALANCE deal is in no
\* rollup and not unmatched; the unmatched list is the empty-comment deals
C24_AggregationScenario ==
    (pc \in {"match", "done"} /\ Occurs(ScenarioSell) = 1 /\ Occurs(ScenarioBuy) = 1)
    => /\ Len(aggregated) = 1
       /\ aggregated[1].net_profit = Amount(0, 221 * Dollar)
       /\ aggregated[1].deal_count = 2
       /\ aggregated[1].key = AcctMFFU \o <<"_", "C", "H", "1">>
       /\ Len(aggregator.aggregations) = 1
       /\ \A k \in 1..Len(aggregator.aggregations[1].deals) :
              aggregator.aggregations[1].deals[k] \in {ScenarioSell, ScenarioBuy}
       /\ Len(aggregator.unmatched_deals) = Occurs(ScenarioEmpty)
       /\ \A k \in 1..Len(aggregator.unmatched_deals) :
              aggregator.unmatched_deals[k] = ScenarioEmpty

\* the pass over the four deals ended: the BALANCE deal was skipped, the
\* empty-comment deal is the one unmatched deal and 221.00 is in the ledger
C24_Witness ==
    /\ pc = "done"
    /\ Len(deals) = 4
    /\ \A d \in ScenarioPool : Occurs(d) = 1
    /\ skipped = 1
    /\ aggregator.unmatched_deals = <<ScenarioEmpty>>
    /\ Len(writes) = 1
    /\ writes[1].field = HedgeResult(1)
    /\ writes[1].value = Amount(0, 221 * Dollar)

(***************************************************************************)
(* Signature runs: one challenge deal per account; the accounts are short, *)
(* eight characters long or longer, in upper, lower or mixed case, with    *)
(* and without a blank before the phase suffix                             *)
(***************************************************************************)
MaxSignatureDeals == 1

SignatureHeads == {<<"M", "F", "F", "U">>, <<"A", "B", "C">>, <<"m", "f", "f", "u">>, <<"a">>}
SignatureMiddles == {<<>>, <<"E", "V", "S", "T", "P", "3", "2", "6", "0", "5">>, <<"x">>}
SignatureTails == {<<>>, <<"7", "0", "0", "8">>, <<"7", "0", "0", "8", " ">>, <<"Z", " ">>}
SignatureAccounts == {h \o m \o t : h \in SignatureHeads, m \in SignatureMiddles, t \in SignatureTails}

SignaturePool ==
    {TradeWithComment(Comment(a, SfxCH1)) : a \in SignatureAccounts}
    \cup {TradeWithComment(Some(<<"h", "i">>))}

InitSignature == \E ds \in SeqsUpTo(SignaturePool, MaxSignatureDeals) : InitWith(ds, FoldLedger)
SpecSignature == InitSignature /\ [][Next]_vars

\* the first four and the last four characters of s in lower case, all of s
\* in lower case when it has at most eight characters
FirstAndLastFour(s) ==
    IF Len(s) <= 8 THEN [k \in 1..Len(s) |-> LowerChar(s[k])]
    ELSE [k \in 1..8 |-> LowerChar(IF k <= 4 THEN s[k] ELSE s[Len(s) - 8 + k])]

\* C25 as stated: the signature of a rollup is the first four and last four
\* characters of its account string as it stands
C25_SignatureOfAccountAsIs ==
    \A i \in 1..Len(aggregated) :
        aggregated[i].account_signature = FirstAndLastFour(aggregated[i].account_number)

\* C25: the signature of a rollup is the first four and last four characters,
\* in lower case, of its account without surrounding whitespace (all of it
\* when that is at most eight characters long); it has at most eight
\* characters, it is its own signature, and the signatures of
\* 'MFFUEVSTP326057008', 'MFFU7008' and 'ABC' are 'mffu7008', 'mffu7008', 'abc'
C25_SignatureOfStrippedAccount ==
    \A i \in 1..Len(aggregated) :
        LET a == aggregated[i].account_number
            sig == aggregated[i].account_signature
        IN  /\ sig = FirstAndLastFour(Strip(a))
            /\ Len(sig) <= 8
            /\ get_account_signature(sig) = sig
            /\ a \in {AcctMFFU, <<"M", "F", "F", "U", "7", "0", "0", "8">>}
                   => sig = <<"m", "f", "f", "u", "7", "0", "0", "8">>
            /\ a = <<"A", "B", "C">> => sig = <<"a", "b", "c">>

\* the rollup of the comment 'MFFU7008 _CH1': a nine-character account that
\* ends in a blank, with the signature of 'MFFU7008'
C25_Witness ==
    /\ pc = "done"
    /\ Len(aggregated) = 1
    /\ aggregated[1].account_number = <<"M", "F", "F", "U", "7", "0", "0", "8", " ">>
    /\ aggregated[1].account_signature = <<"m", "f", "f", "u", "7", "0", "0", "8">>

TargetFamilies == {"Hedge Result", "Hedge Result .1", "Hedge Day"}

\* the rows matching associates with the rollup the update loop is at
MatchedRows ==
    IF pc = "match" /\ ai <= Len(aggregated)
    THEN LET m == find_evaluation_match(aggregated[ai].account_number,
                                        aggregated[ai].phase_code, eval_lookup)
         IN  {m[k].idx : k \in 1..Len(m)}
    ELSE {}

\* C30: a step of a pass that changes the ledger does not add, remove or
\* move a row and changes no account field; every field it changes is a
\* Hedge Result or Hedge Day field of a row matched to the rollup being
\* processed; and it is not taken when the deal list or the ledger is empty
\* or no deal gives a valid rollup
C30_PassChangesOnlyTargetFieldsOfMatchedRows ==
    [][evaluations' # evaluations
       => /\ Len(evaluations') = Len(evaluations)
          /\ \A i \in 1..Len(evaluations) :
                /\ evaluations'[i][AccountCh] = evaluations[i][AccountCh]
                /\ evaluations'[i][AccountFu] = evaluations[i][AccountFu]
                /\ \A f \in FieldNames :
                      evaluations'[i][f] # evaluations[i][f]
                          => f.fam \in TargetFamilies /\ i \in MatchedRows
          /\ deals # <<>>
          /\ evaluations # <<>>
          /\ \E k \in 1..Len(deals) : ~IsNone(add_deal_result(deals[k]))]_vars

\* a pass over a two-row ledger ended with one write, to the first row; the
\* second row is as it was handed in
C30_Witness ==
    /\ pc = "done"
    /\ Len(evaluations) = 2
    /\ Len(writes) = 1
    /\ writes[1].row = 1
    /\ evaluations[1] \notin RowPool
    /\ evaluations[2] \in RowPool
====
